---- MODULE Spec2Model ----
(***************************************************************************)
(* Verification model of the FinResearch data fetcher                      *)
(* (beginner/submissions/team-members/yan-cotta/week2_data_fetcher.py).    *)
(*                                                                         *)
(* fetch_market_data is modelled statement group by statement group: one   *)
(* action per block of the function, with the provider (yfinance) as part  *)
(* of the state.  Python values are tagged records:                        *)
(*   None            [t |-> "none"]                                        *)
(*   str             [t |-> "str", s |-> "..."]                            *)
(*   float           [t |-> "num", n |-> thousandths]   (150.256 = 150256) *)
(*   int (whole)     [t |-> "int", hi |-> h, lo |-> l]  (h * 10^6 + l)     *)
(*   float quotient  [t |-> "frac", num |-> a, den |-> b]  (a / b)         *)
(*   dict            [t |-> "dict", d |-> function from keys to values]    *)
(***************************************************************************)
EXTENDS Integers, Sequences, FiniteSets, TLC

VARIABLES arg, provider, pc, ticker, info, history, current_price,
          price_change, price_change_pct, market_cap, market_cap_formatted,
          exc, calls, result

(* the clock, the timestamp of the returned envelope, and the number and the
   envelope of an earlier call with the same arguments *)
VARIABLES now, timestamp, call, first

(* parse_report_sections (prateek-mulye/app.py): the pieces the document is
   made of, the document, the loop over the patterns and the result *)
VARIABLES layout, report_text, ppc, idx, sections, before, removed

(* format_market_data: position, the change indicator, the returned text and
   an exception that leaves the function *)
VARIABLES fpc, change_str, text, fexc

(* concurrent calls of parse_report_sections: per call its document, its
   position, its loop counter, the object its local `sections` names and the
   object it returned; the dict objects; the callers that changed their map *)
VARIABLES ctext, cpc, cidx, cobj, cret, heap, mutated

(* fetch_company_news: its arguments, the search provider, its position, its
   locals, a caught exception, the searches performed and the result *)
VARIABLES nquery, nmax, nprovider, npc, query, enhanced_query, results,
          articles, nexc, searches, nresult

(* fetch_all_data: its arguments, its position and its result *)
VARIABLES aticker, news_count, apc, aresult
(* FinancialDataTool._run: the input, whether yfinance was importable, the
   provider's answers, the position, the locals, the exception in flight,
   the returned text (as its lines) and the exception that left _run *)
VARIABLES tinput, tlib, tprovider, tpc, tticker, tinfo, tdata, texc, tret, tescaped
(* The compiled workflow graph: the state of the invocation, the nodes of
   the current step, each node's state and number of runs, the documents in
   the vector memory, what the reporter's query saw, and the nodes whose
   external calls fail in this execution *)
VARIABLES gstatus, gactive, gnode, gruns, gstore, gseen, gfail
(* MemoryTool: the collection behind the configured name, each tool
   instance's _collection handle, the clock, what the store does with an ID
   it already holds, the last call with its result (the lines of the text
   _run returned, the bool save_context returned), the store operations the
   call attempted, the collection before the call, the number of saves
   answered [OK] since the last clear, and the instance that cleared last *)
VARIABLES mstore, mcoll, mclock, mpolicy, mcall, mret, mbool, mops, mbefore, msaves, mclearer

callVars == <<now, timestamp, call, first>>
concVars == <<ctext, cpc, cidx, cobj, cret, heap, mutated>>
newsVars == <<nquery, nmax, nprovider, npc, query, enhanced_query, results,
              articles, nexc, searches, nresult>>
allVars == <<aticker, news_count, apc, aresult>>
toolVars == <<tinput, tlib, tprovider, tpc, tticker, tinfo, tdata, texc, tret, tescaped>>
graphVars == <<gstatus, gactive, gnode, gruns, gstore, gseen, gfail>>
memVars == <<mstore, mcoll, mclock, mpolicy, mcall, mret, mbool, mops, mbefore, msaves,
            mclearer>>
laterVars == <<toolVars, graphVars, memVars>>
moreVars == <<concVars, newsVars, allVars, laterVars>>
parseVars == <<layout, report_text, ppc, idx, sections, before, removed>>
formatVars == <<fpc, change_str, text, fexc>>

fetchVars == <<arg, provider, pc, ticker, info, history, current_price,
               price_change, price_change_pct, market_cap, market_cap_formatted,
               exc, calls, result>>
vars == <<fetchVars, callVars, parseVars, formatVars, moreVars>>

----------------------------------------------------------------------------
(* Bounds of the model *)

MaxTickerLen == 6
MaxHist == 3

----------------------------------------------------------------------------
(* Python values *)

None == [t |-> "none"]
Absent == [t |-> "absent"]
Num(n) == [t |-> "num", n |-> n]
Str(s) == [t |-> "str", s |-> s]
Whole(hi, lo) == [t |-> "int", hi |-> hi, lo |-> lo]
Frac(a, b) == [t |-> "frac", num |-> a, den |-> b]
Dict(f) == [t |-> "dict", d |-> f]
EmptyDict == Dict(<<>>)

Million == 1000000

(* bool(v): the truth value Python gives a value in `if v`, `not v`, `a or b` *)
Truthy(v) ==
    CASE v.t = "none" -> FALSE
      [] v.t = "num"  -> v.n # 0
      [] v.t = "frac" -> v.num # 0
      [] v.t = "int"  -> v.hi # 0 \/ v.lo # 0
      [] v.t = "str"  -> v.s # ""
      [] v.t = "dict" -> DOMAIN v.d # {}
      [] OTHER        -> TRUE

(* a or b *)
PyOr(a, b) == IF Truthy(a) THEN a ELSE b

(* d.get(k) and d.get(k, default) on a dict *)
Get(dict, k) == IF k \in DOMAIN dict.d THEN dict.d[k] ELSE None
GetDefault(dict, k, default) == IF k \in DOMAIN dict.d THEN dict.d[k] ELSE default

(* nearest integer to n / d (d > 0), ties to even *)
RoundDiv(n, d) ==
    LET q == n \div d
        r == n % d
    IN  IF 2 * r < d THEN q
        ELSE IF 2 * r > d THEN q + 1
        ELSE IF q % 2 = 0 THEN q ELSE q + 1

(* round(v, 2) *)
Round2(v) ==
    CASE v.t = "num"  -> Num(10 * RoundDiv(v.n, 10))
      [] v.t = "frac" -> Num(10 * RoundDiv(v.num * 100, v.den))
      [] OTHER        -> v

----------------------------------------------------------------------------
(* Strings: a ticker is a sequence of characters *)

(* The characters the model draws tickers from.  EAcuteLower and EAcuteUpper
   stand for U+00E9 and U+00C9, letters outside ASCII for which
   str.isalnum() is True. *)
EAcuteLower == "e^"
EAcuteUpper == "E^"

Whitespace == {" ", "\n", "\t"}
AsciiAlnum == {"a", "A", "7"}
UnicodeAlnum == AsciiAlnum \cup {EAcuteLower, EAcuteUpper}

UpperChar(c) == CASE c = "a" -> "A" [] c = EAcuteLower -> EAcuteUpper [] OTHER -> c

(* str.upper() *)
Upper(s) == [i \in 1..Len(s) |-> UpperChar(s[i])]

RECURSIVE LStrip(_)
LStrip(s) == IF s # <<>> /\ Head(s) \in Whitespace THEN LStrip(Tail(s)) ELSE s

RECURSIVE RStrip(_)
RStrip(s) == IF s # <<>> /\ s[Len(s)] \in Whitespace
             THEN RStrip(SubSeq(s, 1, Len(s) - 1)) ELSE s

(* str.strip() *)
Strip(s) == RStrip(LStrip(s))

(* str.isalnum(): non-empty and every character a letter or a digit, in the
   Unicode sense *)
isalnum(s) == s # <<>> /\ \A i \in 1..Len(s) : s[i] \in UnicodeAlnum

(* the characters of a sequence as one string *)
RECURSIVE Join(_)
Join(s) == IF s = <<>> THEN "" ELSE Head(s) \o Join(Tail(s))

Digit(d) == CASE d = 0 -> "0" [] d = 1 -> "1" [] d = 2 -> "2" [] d = 3 -> "3"
              [] d = 4 -> "4" [] d = 5 -> "5" [] d = 6 -> "6" [] d = 7 -> "7"
              [] d = 8 -> "8" [] d = 9 -> "9"

(* decimal digits of a natural number *)
RECURSIVE IntStr(_)
IntStr(n) == IF n < 10 THEN Digit(n) ELSE IntStr(n \div 10) \o Digit(n % 10)

Pad2(n) == Digit(n \div 10) \o Digit(n % 10)
Pad3(n) == Digit(n \div 100) \o Pad2(n % 100)

(* f"{x:.2f}" of a non-negative value given in hundredths *)
Fixed2(h) == IntStr(h \div 100) \o "." \o Pad2(h % 100)

(* f"{n:,}" of a natural number *)
RECURSIVE Thousands(_)
Thousands(n) == IF n < 1000 THEN IntStr(n)
                ELSE Thousands(n \div 1000) \o "," \o Pad3(n % 1000)

----------------------------------------------------------------------------
(* Market-cap formatting, lines 228-239 *)

(* v > 0 for a number *)
Positive(v) == CASE v.t = "int" -> v.hi > 0 \/ v.lo > 0
                 [] v.t = "num" -> v.n > 0
                 [] OTHER       -> FALSE

(* v >= 10^e for e in {6, 9, 12}; a float of the model is below 10^9 *)
AtLeastPow10(v, e) ==
    CASE v.t = "int" -> v.hi >= (CASE e = 6 -> 1 [] e = 9 -> 1000 [] e = 12 -> Million)
      [] v.t = "num" -> e = 6 /\ v.n >= 1000 * Million
      [] OTHER       -> FALSE

RoundFrom(q, c) == IF c < 0 THEN q
                   ELSE IF c > 0 THEN q + 1
                   ELSE IF q % 2 = 0 THEN q ELSE q + 1

Sign(x) == IF x < 0 THEN 0 - 1 ELSE IF x > 0 THEN 1 ELSE 0

(* v / 10^e in hundredths, rounded as the .2f format rounds it; a float of
   the model is only ever divided by 10^6 *)
Hundredths(v, e) ==
    IF v.t = "num" THEN RoundDiv(v.n, 10 * Million)
    ELSE CASE e = 6  -> v.hi * 100 + RoundDiv(v.lo, 10000)
           [] e = 9  -> RoundFrom(v.hi \div 10,
                                  Sign(2 * ((v.hi % 10) * Million + v.lo) - 10 * Million))
           [] e = 12 -> RoundFrom(v.hi \div 10000,
                                  IF v.hi % 10000 # 5000 THEN Sign((v.hi % 10000) - 5000)
                                  ELSE Sign(v.lo))

(* f"{v:,.0f}" *)
Grouped(v) ==
    IF v.t = "num" THEN Thousands(RoundDiv(v.n, 1000))
    ELSE IF v.hi = 0 THEN Thousands(v.lo)
    ELSE Thousands(v.hi) \o "," \o Pad3(v.lo \div 1000) \o "," \o Pad3(v.lo % 1000)

IsNumber(v) == v.t \in {"int", "num"}

(* FormatMarketCap with the smallest threshold tested first *)
FormatMarketCapMisordered(v) ==
    IF IsNumber(v) /\ Positive(v)
    THEN IF AtLeastPow10(v, 6) THEN "$" \o Fixed2(Hundredths(v, 6)) \o "M"
         ELSE IF AtLeastPow10(v, 9) THEN "$" \o Fixed2(Hundredths(v, 9)) \o "B"
         ELSE IF AtLeastPow10(v, 12) THEN "$" \o Fixed2(Hundredths(v, 12)) \o "T"
         ELSE "$" \o Grouped(v)
    ELSE "N/A"

FormatMarketCap(v) ==
    IF IsNumber(v) /\ Positive(v)
    THEN IF AtLeastPow10(v, 12) THEN "$" \o Fixed2(Hundredths(v, 12)) \o "T"
         ELSE IF AtLeastPow10(v, 9) THEN "$" \o Fixed2(Hundredths(v, 9)) \o "B"
         ELSE IF AtLeastPow10(v, 6) THEN "$" \o Fixed2(Hundredths(v, 6)) \o "M"
         ELSE "$" \o Grouped(v)
    ELSE "N/A"

----------------------------------------------------------------------------
(* The four envelopes fetch_market_data returns *)

InvalidTickerResult(t) ==
    [success |-> FALSE, ticker |-> Str(Join(t)), data |-> None,
     error |-> Str("Invalid ticker format: '" \o Join(t)
                   \o "'. Expected 1-5 alphanumeric characters.")]

(* NotFoundResult that keeps a data record in the failure *)
NotFoundResultWithData(t) ==
    [success |-> FALSE, ticker |-> Str(Join(t)), data |-> EmptyDict,
     error |-> Str("Ticker '" \o Join(t) \o "' not found. Please verify the symbol.")]

NotFoundResult(t) ==
    [success |-> FALSE, ticker |-> Str(Join(t)), data |-> None,
     error |-> Str("Ticker '" \o Join(t) \o "' not found. Please verify the symbol.")]

(* SuccessResult that reports the clock in its error field *)
SuccessResultWithClock(t, data) ==
    [success |-> TRUE, ticker |-> Str(Join(t)), data |-> data, error |-> Num(now)]

(* SuccessResult that drops the entries whose value is null *)
SuccessResultWithoutNulls(t, data) ==
    [success |-> TRUE, ticker |-> Str(Join(t)),
     data |-> Dict([k \in {x \in DOMAIN data.d : data.d[x] # None} |-> data.d[k]]),
     error |-> None]

SuccessResult(t, data) ==
    [success |-> TRUE, ticker |-> Str(Join(t)), data |-> data, error |-> None]

ExceptionResult(t, e) ==
    [success |-> FALSE, ticker |-> Str(Join(t)), data |-> None,
     error |-> Str(e.kind \o ": " \o e.msg)]

NoResult == [success |-> FALSE, ticker |-> None, data |-> None, error |-> None]

(* Exceptions *)
NoException == [kind |-> "", msg |-> ""]
AttributeErrorNone ==
    [kind |-> "AttributeError", msg |-> "'NoneType' object has no attribute 'get'"]
TypeErrorRound ==
    [kind |-> "TypeError", msg |-> "type str doesn't define __round__ method"]
ProviderError == [kind |-> "ConnectionError", msg |-> "Network unreachable"]

(* the classes `except Exception` catches *)
ExceptionClasses == {"AttributeError", "TypeError", "ConnectionError"}
(* a handler narrowed to the provider's own errors *)
CatchesProviderErrorsOnly(e) == e.kind = "ConnectionError"

Catches(e) == e.kind \in ExceptionClasses

(* the last n elements of a sequence: stock.history(period="<n>d") *)
LastN(s, n) == IF Len(s) <= n THEN s ELSE SubSeq(s, Len(s) - n + 1, Len(s))

----------------------------------------------------------------------------
(* fetch_market_data, lines 115-307 *)

NA == Str("N/A")

(* InvalidTicker without the length test *)
InvalidTickerNoLength(t) == t = <<>> \/ ~isalnum(t)

(* line 160: the ticker is rejected *)
InvalidTicker(t) == t = <<>> \/ ~isalnum(t) \/ Len(t) > 5

(* NeedsHistoryCheck that only looks for a null record *)
NeedsHistoryCheckNullOnly(i) == i = None

(* NeedsHistoryCheck that only looks for an empty or null record *)
NeedsHistoryCheckEmptyOnly(i) == ~Truthy(i)

(* line 187: the record does not identify a ticker, ask the history *)
NeedsHistoryCheck(i) ==
    ~Truthy(i) \/ (Get(i, "regularMarketPrice") = None /\ Get(i, "currentPrice") = None)

(* lines 208-212 *)
ResolvePrice(i) ==
    PyOr(PyOr(Get(i, "regularMarketPrice"), Get(i, "currentPrice")),
         Get(i, "previousClose"))

(* x if x else None, with x rounded: lines 251, 253, 254 *)
RoundedOrNone(v) == IF Truthy(v) THEN Round2(v) ELSE None

(* lines 242-277 *)
BuildData(t, i, cp, chg, pct, cap, capf) ==
    Dict([company_name         |-> PyOr(PyOr(Get(i, "shortName"), Get(i, "longName")),
                                        Str(Join(t))),
          sector               |-> GetDefault(i, "sector", NA),
          industry             |-> GetDefault(i, "industry", NA),
          website              |-> GetDefault(i, "website", NA),
          description          |-> GetDefault(i, "longBusinessSummary",
                                              Str("No description available.")),
          current_price        |-> RoundedOrNone(cp),
          currency             |-> GetDefault(i, "currency", Str("USD")),
          price_change         |-> RoundedOrNone(chg),
          price_change_percent |-> RoundedOrNone(pct),
          market_cap           |-> cap,
          market_cap_formatted |-> capf,
          volume               |-> GetDefault(i, "volume", NA),
          average_volume       |-> GetDefault(i, "averageVolume", NA),
          pe_ratio             |-> GetDefault(i, "trailingPE", NA),
          forward_pe           |-> GetDefault(i, "forwardPE", NA),
          eps                  |-> GetDefault(i, "trailingEps", NA),
          beta                 |-> GetDefault(i, "beta", NA),
          day_high             |-> GetDefault(i, "dayHigh", NA),
          day_low              |-> GetDefault(i, "dayLow", NA),
          fifty_two_week_high  |-> GetDefault(i, "fiftyTwoWeekHigh", NA),
          fifty_two_week_low   |-> GetDefault(i, "fiftyTwoWeekLow", NA),
          dividend_yield       |-> GetDefault(i, "dividendYield", NA),
          dividend_rate        |-> GetDefault(i, "dividendRate", NA)])

(* the provider raises at this access *)
Fails(at) == provider.fail = at

Raise(e) == /\ exc' = e
            /\ pc' = "except"

(* what a step of fetch_market_data leaves alone; a step that returns stamps
   the envelope with datetime.now() (lines 164, 194, 282, 304) *)
Elsewhere ==
    /\ timestamp' = IF pc' = "done" THEN now ELSE timestamp
    /\ UNCHANGED <<now, call, first>>
    /\ UNCHANGED parseVars
    /\ UNCHANGED formatVars
    /\ UNCHANGED moreVars

(* lines 157-167: clean the ticker and validate it *)
Validate ==
    /\ pc = "start"
    /\ LET t == Upper(Strip(ticker))
       IN  /\ ticker' = t
           /\ IF InvalidTicker(t)
              THEN /\ result' = InvalidTickerResult(t)
                   /\ pc' = "done"
              ELSE /\ pc' = "Ticker"
                   /\ UNCHANGED result
    /\ Elsewhere
    /\ UNCHANGED <<arg, provider, info, history, current_price, price_change,
                   price_change_pct, market_cap, market_cap_formatted, exc, calls>>

(* line 180: stock = yf.Ticker(ticker) *)
CreateTicker ==
    /\ pc = "Ticker"
    /\ calls' = Append(calls, "Ticker")
    /\ IF Fails("Ticker") THEN Raise(ProviderError)
       ELSE pc' = "info" /\ UNCHANGED exc
    /\ Elsewhere
    /\ UNCHANGED <<arg, provider, ticker, info, history, current_price, price_change,
                   price_change_pct, market_cap, market_cap_formatted, result>>

(* line 183: info = stock.info *)
ReadInfo ==
    /\ pc = "info"
    /\ calls' = Append(calls, "info")
    /\ IF Fails("info") THEN Raise(ProviderError) /\ UNCHANGED info
       ELSE /\ info' = provider.info
            /\ pc' = "check"
            /\ UNCHANGED exc
    /\ Elsewhere
    /\ UNCHANGED <<arg, provider, ticker, history, current_price, price_change,
                   price_change_pct, market_cap, market_cap_formatted, result>>

(* lines 187-197: a record without a price key is checked against the
   one-day history; an empty history means the ticker does not exist *)
CheckFound ==
    /\ pc = "check"
    /\ IF NeedsHistoryCheck(info)
       THEN /\ calls' = Append(calls, "history:1d")
            /\ IF Fails("history:1d")
               THEN Raise(ProviderError) /\ UNCHANGED <<history, result>>
               ELSE /\ history' = LastN(provider.closes, 1)
                    /\ UNCHANGED exc
                    /\ IF history' = <<>>
                       THEN /\ result' = NotFoundResult(ticker)
                            /\ pc' = "done"
                       ELSE /\ pc' = "price"
                            /\ UNCHANGED result
       ELSE /\ pc' = "price"
            /\ UNCHANGED <<calls, history, exc, result>>
    /\ Elsewhere
    /\ UNCHANGED <<arg, provider, ticker, info, current_price, price_change,
                   price_change_pct, market_cap, market_cap_formatted>>

(* lines 208-212: current price from the first truthy price key;
   info.get on None raises AttributeError *)
Price ==
    /\ pc = "price"
    /\ IF info.t # "dict"
       THEN Raise(AttributeErrorNone) /\ UNCHANGED current_price
       ELSE /\ current_price' = ResolvePrice(info)
            /\ pc' = "history"
            /\ UNCHANGED exc
    /\ Elsewhere
    /\ UNCHANGED <<arg, provider, ticker, info, history, price_change,
                   price_change_pct, market_cap, market_cap_formatted, calls, result>>

(* lines 215-225: five-day history and the day-over-day change *)
History ==
    /\ pc = "history"
    /\ calls' = Append(calls, "history:5d")
    /\ IF Fails("history:5d")
       THEN Raise(ProviderError) /\ UNCHANGED <<history, price_change, price_change_pct>>
       ELSE /\ history' = LastN(provider.closes, 5)
            /\ IF history' # <<>> /\ Len(history') >= 2
               THEN LET prev_close == history'[Len(history') - 1]
                        today_close == history'[Len(history')]
                    IN  /\ price_change' = Num(today_close - prev_close)
                        /\ price_change_pct' =
                               Frac((today_close - prev_close) * 100, prev_close)
               ELSE /\ price_change' = None
                    /\ price_change_pct' = None
            /\ pc' = "cap"
            /\ UNCHANGED exc
    /\ Elsewhere
    /\ UNCHANGED <<arg, provider, ticker, info, current_price, market_cap,
                   market_cap_formatted, result>>

(* lines 228-239 *)
MarketCap ==
    /\ pc = "cap"
    /\ market_cap' = GetDefault(info, "marketCap", Whole(0, 0))
    /\ market_cap_formatted' = Str(FormatMarketCap(market_cap'))
    /\ pc' = "data"
    /\ Elsewhere
    /\ UNCHANGED <<arg, provider, ticker, info, history, current_price, price_change,
                   price_change_pct, exc, calls, result>>

(* lines 242-285: build the record; round() of a str raises TypeError *)
Data ==
    /\ pc = "data"
    /\ IF Truthy(current_price) /\ current_price.t = "str"
       THEN Raise(TypeErrorRound) /\ UNCHANGED result
       ELSE /\ result' = SuccessResult(ticker,
                             BuildData(ticker, info, current_price, price_change,
                                       price_change_pct, market_cap,
                                       market_cap_formatted))
            /\ pc' = "done"
            /\ UNCHANGED exc
    /\ Elsewhere
    /\ UNCHANGED <<arg, provider, ticker, info, history, current_price, price_change,
                   price_change_pct, market_cap, market_cap_formatted, calls>>

(* lines 287-307: except Exception as e *)
Except ==
    /\ pc = "except"
    /\ IF Catches(exc)
       THEN /\ result' = ExceptionResult(ticker, exc)
            /\ pc' = "done"
       ELSE /\ pc' = "raised"
            /\ UNCHANGED result
    /\ Elsewhere
    /\ UNCHANGED <<arg, provider, ticker, info, history, current_price, price_change,
                   price_change_pct, market_cap, market_cap_formatted, exc, calls>>

----------------------------------------------------------------------------
(* Inputs: the ticker argument and what the provider holds for it *)

TickerChars == {"a", "7", "-", " ", EAcuteLower}

Tickers == UNION {[1..n -> TickerChars] : n \in 0..MaxTickerLen}

CloseVals == {100000, 105000, 99333}

Closes == UNION {[1..n -> CloseVals] : n \in 0..MaxHist}

PriceKeys == {"regularMarketPrice", "currentPrice", "previousClose"}

PriceOf(k) == CASE k = "regularMarketPrice" -> Num(150256)
                [] k = "currentPrice"       -> Num(149990)
                [] k = "previousClose"      -> Num(148004)

PriceVals(k) == {Absent, None, Num(0), PriceOf(k), Str("n/a")}

CapVals == {Absent, None, Str("2.5B"), Num(999999600), Num(1500000000),
            Whole(0, 0), Whole(0, 1), Whole(0, 999), Whole(0, 999999),
            Whole(1, 0), Whole(2, 500000), Whole(999, 999999),
            Whole(1000, 0), Whole(2500, 0), Whole(999999, 999999),
            Whole(Million, 0), Whole(3 * Million, 0)}

InfoKeys == PriceKeys \cup {"marketCap", "sector"}

(* the dict holding the keys of f that are not Absent *)
AsDict(f) == Dict([k \in {x \in DOMAIN f : f[x] # Absent} |-> f[k]])

InfosByPrice ==
    {AsDict([k \in InfoKeys |->
                IF k \in PriceKeys THEN p[k] ELSE IF k = "sector" THEN s ELSE Absent]) :
        p \in {q \in [PriceKeys -> UNION {PriceVals(k) : k \in PriceKeys}] :
                  \A k \in PriceKeys : q[k] \in PriceVals(k)},
        s \in {Absent, Str("Technology")}}

InfosByCap ==
    {AsDict([k \in InfoKeys |->
                IF k = "regularMarketPrice" THEN PriceOf(k)
                ELSE IF k = "marketCap" THEN c ELSE Absent]) : c \in CapVals}

(* the keys lines 245-276 copy through, and a value for each *)
TextKeys == {"sector", "industry"}
NumberKeys == {"trailingPE", "forwardPE", "trailingEps", "beta", "dayHigh", "dayLow",
               "fiftyTwoWeekHigh", "fiftyTwoWeekLow", "dividendYield", "dividendRate"}
NameKeys == {"shortName", "longName"}

FieldValue(k) == CASE k = "sector"    -> Str("Technology")
                   [] k = "industry"  -> Str("Consumer Electronics")
                   [] k = "shortName" -> Str("Apple Inc.")
                   [] k = "longName"  -> Str("Apple Incorporated")
                   [] OTHER           -> Num(28450)

(* records with a price and one copied key, present with a value or with
   null, and records with every combination of the two name keys *)
InfosByField ==
    UNION {{AsDict([k \in {"regularMarketPrice", f} |->
                       IF k = f THEN v ELSE PriceOf("regularMarketPrice")]) :
               v \in {None, FieldValue(f)}} :
           f \in TextKeys \cup NumberKeys}
    \cup
    {AsDict([k \in {"regularMarketPrice"} \cup NameKeys |->
                IF k \in NameKeys THEN n[k] ELSE PriceOf(k)]) :
        n \in {m \in [NameKeys -> {Absent, None} \cup {FieldValue(k) : k \in NameKeys}] :
                  \A k \in NameKeys : m[k] \in {Absent, None, FieldValue(k)}}}

FailPoints == {"Ticker", "info", "history:1d", "history:5d"}

WideProviders ==
    [info : InfosByPrice \cup {None}, closes : Closes, fail : {"none"}]
    \cup [info : InfosByCap \cup InfosByField, closes : {<<100000, 105000>>},
          fail : {"none"}]
    \cup [info : {EmptyDict, AsDict([k \in {"regularMarketPrice"} |-> PriceOf(k)])},
          closes : {<<>>, <<100000, 105000>>}, fail : FailPoints]

NarrowProviders ==
    {[info |-> EmptyDict, closes |-> <<>>, fail |-> "none"],
     [info |-> AsDict([k \in {"regularMarketPrice"} |-> PriceOf(k)]),
      closes |-> <<100000, 105000>>, fail |-> "none"]}

NarrowTickers == {<<"a", "a", "7">>, <<" ", EAcuteLower, " ">>}

(* a call of fetch_market_data about to start: nothing bound yet *)
FetchEntry ==
    /\ arg = ticker
    /\ pc = "start"
    /\ info = None
    /\ history = <<>>
    /\ current_price = None
    /\ price_change = None
    /\ price_change_pct = None
    /\ market_cap = None
    /\ market_cap_formatted = None
    /\ exc = NoException
    /\ calls = <<>>
    /\ result = NoResult

FirstCall ==
    /\ now = 0
    /\ timestamp = None
    /\ call = 1
    /\ first = NoResult

(* parse_report_sections is not running *)
NoLayout == [slots |-> <<>>, lines |-> <<>>, newline |-> FALSE]
NoEarlierCall == [layout |-> NoLayout, sections |-> <<>>]

ParseIdle ==
    /\ layout = NoLayout
    /\ report_text = <<>>
    /\ ppc = "idle"
    /\ idx = 0
    /\ sections = <<>>
    /\ before = NoEarlierCall
    /\ removed = 0

(* format_market_data is not running *)
FormatIdle ==
    /\ fpc = "idle"
    /\ change_str = ""
    /\ text = <<>>
    /\ fexc = NoException

(* the two concurrent calls of parse_report_sections *)
Calls == {1, 2}

(* no concurrent call of parse_report_sections is running *)
ConcIdle ==
    /\ ctext = [c \in Calls |-> <<>>]
    /\ cpc = [c \in Calls |-> "idle"]
    /\ cidx = [c \in Calls |-> 0]
    /\ cobj = [c \in Calls |-> 0]
    /\ cret = [c \in Calls |-> 0]
    /\ heap = <<>>
    /\ mutated = {}

NoNewsResult ==
    [success |-> FALSE, query |-> "", articles |-> <<>>, article_count |-> 0, error |-> None]

(* the locals of fetch_company_news before its first statement *)
NewsEntry ==
    /\ query = ""
    /\ enhanced_query = ""
    /\ results = <<>>
    /\ articles = <<>>
    /\ nexc = NoException
    /\ searches = <<>>
    /\ nresult = NoNewsResult

(* fetch_company_news is not running *)
NewsIdle ==
    /\ nquery = ""
    /\ nmax = 0
    /\ nprovider = [response |-> <<>>, fail |-> "none"]
    /\ npc = "idle"
    /\ NewsEntry

NoCombinedResult ==
    [ticker |-> "", market_data |-> NoResult, news |-> NoNewsResult,
     overall_success |-> FALSE]

(* fetch_all_data is not running *)
AllIdle ==
    /\ aticker = <<>>
    /\ news_count = 0
    /\ apc = "idle"
    /\ aresult = NoCombinedResult

(* no call of FinancialDataTool._run *)
ToolIdle ==
    /\ tinput = <<>>
    /\ tlib = TRUE
    /\ tprovider = [info |-> None, closes |-> <<>>, fail |-> "none"]
    /\ tpc = "idle"
    /\ tticker = <<>>
    /\ tinfo = None
    /\ tdata = None
    /\ texc = NoException
    /\ tret = <<>>
    /\ tescaped = NoException

(* lines 12-15 of graph.py *)
GraphNodes == {"manager", "researcher", "analyst", "reporter"}

(* no invocation of the workflow graph *)
GraphIdle ==
    /\ gstatus = "idle"
    /\ gactive = {}
    /\ gnode = [n \in GraphNodes |-> "waiting"]
    /\ gruns = [n \in GraphNodes |-> 0]
    /\ gstore = {}
    /\ gseen = {}
    /\ gfail = {}

(* two tool instances, as ResearcherAgent and ReporterAgent create them *)
Instances == {1, 2}

NoCollection == [gen |-> 0, exists |-> FALSE, docs |-> <<>>]
NoMemoryCall == [op |-> "none", inst |-> 0, cmd |-> ""]

(* no MemoryTool in use *)
MemIdle ==
    /\ mstore = NoCollection
    /\ mcoll = [i \in Instances |-> 0]
    /\ mclock = 0
    /\ mpolicy = "ignore"
    /\ mcall = NoMemoryCall
    /\ mret = <<>>
    /\ mbool = FALSE
    /\ mops = <<>>
    /\ mbefore = NoCollection
    /\ msaves = 0
    /\ mclearer = 0

LaterIdle ==
    /\ ToolIdle
    /\ GraphIdle
    /\ MemIdle

RestIdle ==
    /\ ConcIdle
    /\ NewsIdle
    /\ AllIdle
    /\ LaterIdle

Init ==
    /\ \/ ticker \in Tickers /\ provider \in NarrowProviders
       \/ ticker \in NarrowTickers /\ provider \in WideProviders
    /\ FetchEntry
    /\ FirstCall
    /\ ParseIdle
    /\ FormatIdle
    /\ RestIdle

Next ==
    \/ Validate
    \/ CreateTicker
    \/ ReadInfo
    \/ CheckFound
    \/ Price
    \/ History
    \/ MarketCap
    \/ Data
    \/ Except

Spec == Init /\ [][Next]_vars

----------------------------------------------------------------------------
(* Properties of fetch_market_data *)

Done == pc = "done"

(* the ticker as line 157 leaves it *)
Normalized == Upper(Strip(arg))

(* ^[A-Za-z0-9]{1,5}$ *)
MatchesTickerPattern(s) ==
    /\ Len(s) \in 1..5
    /\ \A i \in 1..Len(s) : s[i] \in AsciiAlnum

NotFoundError ==
    Str("Ticker '" \o Join(Normalized) \o "' not found. Please verify the symbol.")

InvalidFormatError ==
    Str("Invalid ticker format: '" \o Join(Normalized)
        \o "'. Expected 1-5 alphanumeric characters.")

(* C1: every returned envelope has success = TRUE exactly when data is set
   and error is null, and success = FALSE exactly when data is null and error
   is set. *)
C1_EnvelopeInvariant ==
    Done => /\ result.success <=> (result.data # None /\ result.error = None)
            /\ ~result.success <=> (result.data = None /\ result.error # None)

C1_Witness ==
    /\ Done
    /\ ~result.success
    /\ result.error = NotFoundError
    /\ result.data = None

(* C2: whatever the provider returns or raises, the call ends with an
   envelope and never with an exception; an exception raised while reading
   or deriving fields gives success = FALSE and the error
   "<exception kind>: <message>". *)
C2_NeverRaises ==
    /\ pc # "raised"
    /\ Done => /\ DOMAIN result = {"success", "ticker", "data", "error"}
               /\ result.success \in BOOLEAN
               /\ result.ticker = Str(Join(Normalized))
    /\ (Done /\ exc # NoException) =>
           result = [success |-> FALSE, ticker |-> Str(Join(Normalized)),
                     data |-> None, error |-> Str(exc.kind \o ": " \o exc.msg)]

C2_Witness ==
    /\ Done
    /\ exc.kind = "TypeError"
    /\ ~result.success

(* C3: a ticker whose trimmed form fails ^[A-Za-z0-9]{1,5}$ is answered with
   the invalid-ticker-format failure, and a ticker whose trimmed form matches
   is not rejected by the validation. *)
C3_PatternDecidesRejection ==
    Done => /\ ~MatchesTickerPattern(Strip(arg)) =>
                   (~result.success /\ result.error = InvalidFormatError)
            /\ MatchesTickerPattern(Strip(arg)) => result.error # InvalidFormatError

(* C4: while the trimmed, upper-cased ticker is empty, holds a character that
   is not alphanumeric, or is longer than 5 characters, the provider is never
   accessed: no Ticker object, no info, no history. *)
C4_NoLookupForInvalidTicker ==
    (\/ Len(Normalized) = 0
     \/ \E i \in 1..Len(Normalized) : Normalized[i] \notin UnicodeAlnum
     \/ Len(Normalized) > 5)
    => calls = <<>>

C4_Witness ==
    /\ Done
    /\ Len(Normalized) > 5
    /\ \A i \in 1..Len(Normalized) : Normalized[i] \in AsciiAlnum
    /\ ~result.success
    /\ calls = <<>>

(* the first of the three price keys whose value is not null *)
FirstNonNullPrice(i) ==
    IF Get(i, "regularMarketPrice") # None THEN Get(i, "regularMarketPrice")
    ELSE IF Get(i, "currentPrice") # None THEN Get(i, "currentPrice")
    ELSE Get(i, "previousClose")

(* C5: on success current_price is the (rounded) value of the first of
   regularMarketPrice, currentPrice, previousClose that is not null, the
   value 0 included, and null only when all three are absent or null. *)
C5_FirstNonNullPriceWins ==
    (Done /\ result.success) =>
        result.data.d.current_price =
            (IF FirstNonNullPrice(provider.info) = None THEN None
             ELSE Round2(FirstNonNullPrice(provider.info)))

(* the provider answers every access the call makes before the not-found
   decision *)
AnswersLookup == provider.fail \notin {"Ticker", "info", "history:1d"}

(* C6: a valid ticker with an empty or null record and an empty history is
   answered with the not-found failure naming the normalized ticker. *)
C6_EmptyRecordNotFound ==
    (/\ Done
     /\ MatchesTickerPattern(Strip(arg))
     /\ AnswersLookup
     /\ provider.info \in {None, EmptyDict}
     /\ provider.closes = <<>>)
    => result = [success |-> FALSE, ticker |-> Str(Join(Normalized)),
                 data |-> None, error |-> NotFoundError]

C6_Witness ==
    /\ Done
    /\ MatchesTickerPattern(Strip(arg))
    /\ provider.info = EmptyDict
    /\ provider.closes = <<>>
    /\ Len(calls) = 3
    /\ result.error = NotFoundError

(* a non-empty record with other fields, without regularMarketPrice and
   currentPrice, whose previousClose is absent, null or a number *)
PartialRecord(i) ==
    /\ i.t = "dict"
    /\ "sector" \in DOMAIN i.d
    /\ "regularMarketPrice" \notin DOMAIN i.d
    /\ "currentPrice" \notin DOMAIN i.d
    /\ Get(i, "previousClose").t \in {"none", "num"}

PartialCase ==
    /\ Done
    /\ MatchesTickerPattern(Strip(arg))
    /\ provider.fail = "none"
    /\ PartialRecord(provider.info)

(* C7 as stated: a partial record gives success whatever the history is. *)
C7_PartialDataAlwaysSucceeds ==
    PartialCase =>
        /\ result.success
        /\ result.error # NotFoundError
        /\ "previousClose" \notin DOMAIN provider.info.d =>
               result.data.d.current_price = None

(* C7 amended: a partial record gives success (current_price null when no
   price key is present) when the history is non-empty, and the not-found
   failure when the history is empty. *)
C7_PartialDataNeedsHistory ==
    PartialCase =>
        IF provider.closes # <<>>
        THEN /\ result.success
             /\ result.error = None
             /\ "previousClose" \notin DOMAIN provider.info.d =>
                    result.data.d.current_price = None
        ELSE /\ ~result.success
             /\ result.error = NotFoundError

C7_Witness ==
    /\ PartialCase
    /\ "previousClose" \notin DOMAIN provider.info.d
    /\ provider.closes # <<>>
    /\ result.success
    /\ result.data.d.current_price = None
    /\ result.data.d.sector = Str("Technology")

(* C8: a valid ticker with an empty or null record and a non-empty history
   gives success with current_price null. *)
C8_EmptyRecordWithHistorySucceeds ==
    (/\ Done
     /\ MatchesTickerPattern(Strip(arg))
     /\ provider.fail = "none"
     /\ provider.info \in {None, EmptyDict}
     /\ provider.closes # <<>>)
    => /\ result.success
       /\ result.data.d.current_price = None

(* C9: on success a history of two or more closes gives price_change =
   latest - prior and price_change_percent = (latest - prior) / prior * 100,
   rounded to 2 decimals and never null; a shorter history gives null for
   both. *)
C9_PriceChangeFromHistory ==
    (Done /\ result.success) =>
        LET h == provider.closes
            n == Len(h)
        IN  IF n >= 2
            THEN /\ result.data.d.price_change =
                        Num(10 * RoundDiv(h[n] - h[n - 1], 10))
                 /\ result.data.d.price_change_percent =
                        Num(10 * RoundDiv((h[n] - h[n - 1]) * 10000, h[n - 1]))
            ELSE /\ result.data.d.price_change = None
                 /\ result.data.d.price_change_percent = None

(* the raw market cap of a record, Absent when the key is missing *)
RawCap(i) == IF "marketCap" \in DOMAIN i.d THEN i.d["marketCap"] ELSE Absent

(* the bucket the thresholds put a market cap in *)
CapBucket(m) ==
    IF m.t \notin {"int", "num"} \/ ~Positive(m) THEN "N/A"
    ELSE IF AtLeastPow10(m, 12) THEN "T"
    ELSE IF AtLeastPow10(m, 9) /\ ~AtLeastPow10(m, 12) THEN "B"
    ELSE IF AtLeastPow10(m, 6) /\ ~AtLeastPow10(m, 9) THEN "M"
    ELSE "plain"

CapText(m) ==
    CASE CapBucket(m) = "N/A"   -> "N/A"
      [] CapBucket(m) = "T"     -> "$" \o Fixed2(Hundredths(m, 12)) \o "T"
      [] CapBucket(m) = "B"     -> "$" \o Fixed2(Hundredths(m, 9)) \o "B"
      [] CapBucket(m) = "M"     -> "$" \o Fixed2(Hundredths(m, 6)) \o "M"
      [] CapBucket(m) = "plain" -> "$" \o Grouped(m)

(* C10: market_cap_formatted follows the thresholds: m >= 10^12 the T form,
   10^9 <= m < 10^12 the B form, 10^6 <= m < 10^9 the M form, 0 < m < 10^6
   the thousands-separated integer, and 0, absent, null or non-numeric
   "N/A"; the boundaries fall in the upper bucket. *)
C10_MarketCapThresholds ==
    (Done /\ result.success) =>
        LET m == RawCap(provider.info)
            f == result.data.d.market_cap_formatted
        IN  /\ f = Str(CapText(m))
            /\ m = Whole(Million, 0) => f = Str("$1.00T")
            /\ m = Whole(1000, 0) => f = Str("$1.00B")
            /\ m = Whole(1, 0) => f = Str("$1.00M")
            /\ m = Whole(2500, 0) => f = Str("$2.50B")
            /\ m = Whole(3 * Million, 0) => f = Str("$3.00T")
            /\ m = Whole(0, 999) => f = Str("$999")
            /\ m = Whole(0, 999999) => f = Str("$999,999")
            /\ m \in {Whole(0, 0), Absent, None, Str("2.5B")} => f = NA

C10_Witness ==
    /\ Done
    /\ result.success
    /\ RawCap(provider.info) = Whole(Million, 0)
    /\ result.data.d.market_cap_formatted = Str("$1.00T")

(* the output field each copied key of the raw record ends in *)
SourceKey(f) ==
    CASE f = "sector"              -> "sector"
      [] f = "industry"            -> "industry"
      [] f = "pe_ratio"            -> "trailingPE"
      [] f = "forward_pe"          -> "forwardPE"
      [] f = "eps"                 -> "trailingEps"
      [] f = "beta"                -> "beta"
      [] f = "day_high"            -> "dayHigh"
      [] f = "day_low"             -> "dayLow"
      [] f = "fifty_two_week_high" -> "fiftyTwoWeekHigh"
      [] f = "fifty_two_week_low"  -> "fiftyTwoWeekLow"
      [] f = "dividend_yield"      -> "dividendYield"
      [] f = "dividend_rate"       -> "dividendRate"

CopiedFields == {"sector", "industry", "pe_ratio", "forward_pe", "eps", "beta",
                 "day_high", "day_low", "fifty_two_week_high", "fifty_two_week_low",
                 "dividend_yield", "dividend_rate"}

(* C11: on success every descriptive, valuation, range and dividend field
   equals the raw value when its source key is present and not null, and
   "N/A" when the key is absent and when it is present with null. *)
C11_SentinelForAbsentOrNull ==
    (Done /\ result.success) =>
        \A f \in CopiedFields :
            result.data.d[f] =
                (IF SourceKey(f) \in DOMAIN provider.info.d
                    /\ provider.info.d[SourceKey(f)] # None
                 THEN provider.info.d[SourceKey(f)]
                 ELSE Str("N/A"))

DataKeys == {"company_name", "sector", "industry", "website", "description",
             "current_price", "currency", "price_change", "price_change_percent",
             "market_cap", "market_cap_formatted", "volume", "average_volume",
             "pe_ratio", "forward_pe", "eps", "beta", "day_high", "day_low",
             "fifty_two_week_high", "fifty_two_week_low", "dividend_yield",
             "dividend_rate"}

(* C12: the data map of every successful result has the same 23 keys,
   whatever keys the raw record holds. *)
C12_AllKeysPresent ==
    (Done /\ result.success) =>
        /\ result.data.t = "dict"
        /\ DOMAIN result.data.d = DataKeys

C12_Witness ==
    /\ Done
    /\ result.success
    /\ provider.info = EmptyDict
    /\ provider.closes # <<>>
    /\ DOMAIN result.data.d = DataKeys
    /\ result.data.d.current_price = None

(* ------------------------------------------------------------------ *)
(* parse_report_sections (app.py)                                      *)
(* ------------------------------------------------------------------ *)

(* MaxLines: lines of a free-form document; MaxUnusual: sections of a
   report that differ from the plain header-and-body form *)
MaxLines == 4
MaxUnusual == 2

(* the characters of a string literal *)
Chars(s) == [i \in 1..Len(s) |-> SubSeq(s, i, i)]

(* the keys, in the insertion order of both dicts *)
SectionKeys == <<"Executive Summary", "Company Snapshot", "Financial Indicators",
                 "News & Sentiment", "Risks & Opportunities", "Final Perspective">>

(* sections = {...} *)
DefaultSections ==
    [k \in {SectionKeys[i] : i \in DOMAIN SectionKeys} |->
        CASE k = "Executive Summary"     -> Chars("No summary available.")
          [] k = "Company Snapshot"      -> Chars("No snapshot available.")
          [] k = "Financial Indicators"  -> Chars("No data available.")
          [] k = "News & Sentiment"      -> Chars("No news available.")
          [] k = "Risks & Opportunities" -> Chars("No analysis available.")
          [] k = "Final Perspective"     -> Chars("No conclusion available.")]

(* patterns = {...}: the literal head of each expression, and what follows
   the lazy group: the literal "\n##", or the anchor "$" *)
patterns ==
    <<[head |-> Chars("## 1. Executive Summary\n"), tail |-> Chars("\n##"), anchored |-> FALSE],
      [head |-> Chars("## 2. Company Snapshot\n"), tail |-> Chars("\n##"), anchored |-> FALSE],
      [head |-> Chars("## 3. Key Financial Indicators\n"), tail |-> Chars("\n##"), anchored |-> FALSE],
      [head |-> Chars("## 4. Recent News & Sentiment\n"), tail |-> Chars("\n##"), anchored |-> FALSE],
      [head |-> Chars("## 5. Risks & Opportunities\n"), tail |-> Chars("\n##"), anchored |-> FALSE],
      [head |-> Chars("## 6. Final Perspective\n"), tail |-> <<>>, anchored |-> TRUE]>>

(* the literal pat stands in s at position p *)
OccursAt(pat, s, p) ==
    /\ p >= 1
    /\ p + Len(pat) - 1 <= Len(s)
    /\ \A k \in 1..Len(pat) : s[p + k - 1] = pat[k]

(* "$" without re.MULTILINE, after e characters: the end of the string, or
   just before a newline that ends the string *)
AtEnd(s, e) == e = Len(s) \/ (e = Len(s) - 1 /\ s[Len(s)] = "\n")

(* the lengths of s at which a group that starts after from characters can
   end; with re.DOTALL the group takes newlines too *)
GroupEnds(pt, s, from) ==
    IF pt.anchored
    THEN {e \in from..Len(s) : AtEnd(s, e)}
    ELSE LET c == pt.tail[1]
         IN  {e \in from..(Len(s) - 1) : s[e + 1] = c /\ OccursAt(pt.tail, s, e + 1)}

(* the positions at which the whole expression matches *)
MatchStarts(pt, s) ==
    LET c == pt.head[1]
    IN  {p \in 1..Len(s) : /\ s[p] = c
                            /\ OccursAt(pt.head, s, p)
                            /\ GroupEnds(pt, s, p - 1 + Len(pt.head)) # {}}

Least(S) == CHOOSE x \in S : \A y \in S : x <= y
Greatest(S) == CHOOSE x \in S : \A y \in S : x >= y

NoMatch == [found |-> FALSE, group |-> <<>>]

(* re.search that takes the rightmost match *)
re_search_rightmost(pt, s) ==
    LET starts == MatchStarts(pt, s)
        p == Greatest(starts)
        from == p - 1 + Len(pt.head)
    IN  IF starts = {} THEN NoMatch
        ELSE [found |-> TRUE, group |-> SubSeq(s, from + 1, Least(GroupEnds(pt, s, from)))]

(* re.search with a greedy group *)
re_search_greedy(pt, s) ==
    LET starts == MatchStarts(pt, s)
        p == Least(starts)
        from == p - 1 + Len(pt.head)
    IN  IF starts = {} THEN NoMatch
        ELSE [found |-> TRUE, group |-> SubSeq(s, from + 1, Greatest(GroupEnds(pt, s, from)))]

(* re.search(pattern, report_text, re.DOTALL): the leftmost match, its
   group as short as a match allows *)
re_search(pt, s) ==
    LET starts == MatchStarts(pt, s)
        p == Least(starts)
        from == p - 1 + Len(pt.head)
    IN  IF starts = {} THEN NoMatch
        ELSE [found |-> TRUE, group |-> SubSeq(s, from + 1, Least(GroupEnds(pt, s, from)))]

(* match.group(1) without .strip() *)
CapturedUnstripped(match) == match.group

(* match.group(1).strip() *)
Captured(match) == Strip(match.group)

(* ---- documents ---- *)

HeaderLines ==
    <<Chars("## 1. Executive Summary"), Chars("## 2. Company Snapshot"),
      Chars("## 3. Key Financial Indicators"), Chars("## 4. Recent News & Sentiment"),
      Chars("## 5. Risks & Opportunities"), Chars("## 6. Final Perspective")>>

HeaderLine(i) == HeaderLines[i]

Sections == 1..6
Following(i) == (i % 6) + 1

Body(i) == <<"b", Digit(i)>>

(* the forms a section of a report takes: its lines after the header *)
Variants == {"absent", "plain", "padded", "empty", "sub", "twice", "embedded"}

BodyLines(i, v) ==
    CASE v = "plain"    -> <<Body(i)>>
      [] v = "padded"   -> <<<<>>, <<" ">> \o Body(i) \o <<" ">>, <<>>>>
      [] v = "empty"    -> <<>>
      [] v = "sub"      -> <<Body(i), Chars("### Detail"), Chars("more")>>
      [] v = "twice"    -> <<Body(i), HeaderLine(i), Chars("again")>>
      [] v = "embedded" -> <<Chars("see") \o HeaderLine(Following(i)), Body(i)>>

SlotLines(i, v) == IF v = "absent" THEN <<>> ELSE <<HeaderLine(i)>> \o BodyLines(i, v)

RECURSIVE JoinLines(_)
JoinLines(ls) ==
    IF ls = <<>> THEN <<>>
    ELSE IF Len(ls) = 1 THEN Head(ls)
    ELSE Head(ls) \o <<"\n">> \o JoinLines(Tail(ls))

RECURSIVE Flatten(_)
Flatten(ss) == IF ss = <<>> THEN <<>> ELSE Head(ss) \o Flatten(Tail(ss))

LinesOf(l) ==
    IF l.slots = <<>> THEN l.lines
    ELSE Flatten([i \in Sections |-> SlotLines(i, l.slots[i])])

TextOf(l) == JoinLines(LinesOf(l)) \o (IF l.newline THEN <<"\n">> ELSE <<>>)

FreeLines == {HeaderLine(1), HeaderLine(6), <<"b">>, <<>>, Chars("##"), Chars(" c ")}

RECURSIVE SeqsUpTo(_, _)
SeqsUpTo(S, n) ==
    IF n = 0 THEN {<<>>}
    ELSE LET shorter == SeqsUpTo(S, n - 1)
         IN  shorter \cup {Append(q, x) : q \in shorter, x \in S}

Reports ==
    {[slots |-> sl, lines |-> <<>>, newline |-> nl] :
        sl \in {f \in [Sections -> Variants] :
                  Cardinality({i \in Sections : f[i] # "plain"}) <= MaxUnusual},
        nl \in BOOLEAN}

FreeForm ==
    {[slots |-> <<>>, lines |-> ls, newline |-> nl] :
        ls \in SeqsUpTo(FreeLines, MaxLines), nl \in BOOLEAN}

Layouts == Reports \cup FreeForm

(* ---- the function, statement by statement ---- *)

ParseFrame == UNCHANGED <<fetchVars, callVars, formatVars, moreVars>>

(* lines 10-27: the two dict literals *)
BuildDicts ==
    /\ ppc = "sections"
    /\ sections' = DefaultSections
    /\ idx' = 1
    /\ ppc' = "patterns"
    /\ UNCHANGED <<layout, report_text, before, removed>>
    /\ ParseFrame

(* lines 29-32: one turn of the loop over patterns.items() *)
SearchPattern ==
    /\ ppc = "patterns"
    /\ idx <= Len(patterns)
    /\ LET match == re_search(patterns[idx], report_text)
       IN  sections' = IF match.found
                       THEN [sections EXCEPT ![SectionKeys[idx]] = Captured(match)]
                       ELSE sections
    /\ idx' = idx + 1
    /\ UNCHANGED <<layout, report_text, ppc, before, removed>>
    /\ ParseFrame

(* line 34 *)
ReturnSections ==
    /\ ppc = "patterns"
    /\ idx > Len(patterns)
    /\ ppc' = "done"
    /\ UNCHANGED <<layout, report_text, idx, sections, before, removed>>
    /\ ParseFrame

(* the caller parses the same report again with section j left out *)
ParseWithout(j) ==
    /\ ppc = "done"
    /\ removed = 0
    /\ layout.slots # <<>>
    /\ layout.slots[j] # "absent"
    /\ before' = [layout |-> layout, sections |-> sections]
    /\ removed' = j
    /\ layout' = [layout EXCEPT !.slots[j] = "absent"]
    /\ report_text' = TextOf(layout')
    /\ ppc' = "sections"
    /\ idx' = 0
    /\ sections' = <<>>
    /\ ParseFrame

(* fetch_market_data is not running *)
FetchIdle ==
    /\ arg = <<>>
    /\ ticker = <<>>
    /\ provider = [info |-> EmptyDict, closes |-> <<>>, fail |-> "none"]
    /\ pc = "idle"
    /\ info = None
    /\ history = <<>>
    /\ current_price = None
    /\ price_change = None
    /\ price_change_pct = None
    /\ market_cap = None
    /\ market_cap_formatted = None
    /\ exc = NoException
    /\ calls = <<>>
    /\ result = NoResult

InitParse ==
    /\ layout \in Layouts
    /\ report_text = TextOf(layout)
    /\ ppc = "sections"
    /\ idx = 0
    /\ sections = <<>>
    /\ before = NoEarlierCall
    /\ removed = 0
    /\ FetchIdle
    /\ FirstCall
    /\ FormatIdle
    /\ RestIdle

NextParse ==
    \/ BuildDicts
    \/ SearchPattern
    \/ ReturnSections
    \/ \E j \in Sections : ParseWithout(j)

SpecParse == InitParse /\ [][NextParse]_vars

(* ---- what the specification says of the parser ---- *)

Parsed == ppc = "done"

Value(i) == sections[SectionKeys[i]]

Placeholder(i) ==
    CASE i = 1 -> Chars("No summary available.")
      [] i = 2 -> Chars("No snapshot available.")
      [] i = 3 -> Chars("No data available.")
      [] i = 4 -> Chars("No news available.")
      [] i = 5 -> Chars("No analysis available.")
      [] i = 6 -> Chars("No conclusion available.")

IsSubstring(v, s) ==
    \E p \in 1..(Len(s) + 1) : p + Len(v) - 1 <= Len(s) /\ SubSeq(s, p, p + Len(v) - 1) = v

IsTrimmed(v) == v = <<>> \/ (v[1] \notin Whitespace /\ v[Len(v)] \notin Whitespace)

(* the lines of a document, without their newlines *)
RECURSIVE SplitLines(_)
SplitLines(s) ==
    LET breaks == {p \in 1..Len(s) : s[p] = "\n"}
        n == Least(breaks)
    IN  IF breaks = {} THEN <<s>>
        ELSE <<SubSeq(s, 1, n - 1)>> \o SplitLines(SubSeq(s, n + 1, Len(s)))

StartsWith(l, pre) == Len(l) >= Len(pre) /\ SubSeq(l, 1, Len(pre)) = pre

(* a second-level markdown header: "## " and a title *)
IsHeader(l) == StartsWith(l, Chars("## "))

(* the text of lines a+1 .. b-1, trimmed *)
TextBetween(lines, a, b) == Strip(JoinLines(SubSeq(lines, a + 1, b - 1)))

(* C13: the returned map has exactly the six keys, and each value is the
   key's own placeholder or a substring of the input with no whitespace at
   either end. *)
C13_SixKeysPlaceholderOrTrimmedSubstring ==
    Parsed =>
        /\ DOMAIN sections = {SectionKeys[i] : i \in Sections}
        /\ \A i \in Sections :
              \/ Value(i) = Placeholder(i)
              \/ IsSubstring(Value(i), report_text) /\ IsTrimmed(Value(i))

C13_Witness ==
    /\ Parsed
    /\ layout.slots # <<>>
    /\ layout.slots[2] = "padded"
    /\ layout.slots[3] = "absent"
    /\ Value(2) = Body(2)
    /\ Value(3) = Placeholder(3)
    /\ DOMAIN sections = {SectionKeys[i] : i \in Sections}

(* C14: for each of sections 1-5 whose header line occurs and is followed
   later by a "##" header, the value is the text between the end of that
   header line and the next "##" header, trimmed; an empty body gives the
   empty string and "###" lines belong to the body. *)
C14_BodyUpToNextHeader ==
    Parsed =>
        LET lines == SplitLines(report_text)
        IN  \A i \in 1..5 :
              LET at == {a \in DOMAIN lines : lines[a] = HeaderLine(i)}
                  a == Least(at)
                  next == {b \in DOMAIN lines : b > a /\ IsHeader(lines[b])}
              IN  (at # {} /\ next # {}) =>
                      Value(i) = TextBetween(lines, a, Least(next))

(* C15: when the header line of section 6 occurs, the value is everything
   from the end of that line to the end of the document, trimmed, also when
   the header is the last line. *)
C15_FinalPerspectiveToEnd ==
    Parsed =>
        LET lines == SplitLines(report_text)
            at == {a \in DOMAIN lines : lines[a] = HeaderLine(6)}
        IN  at # {} => Value(6) = TextBetween(lines, Least(at), Len(lines) + 1)

(* the header text of section i stands somewhere in the document *)
HeaderOccurs(i) == IsSubstring(HeaderLine(i), report_text)

(* some occurrence of the header of section i has a line that begins with
   "##" after its own line *)
MarkerFollows(i) ==
    \E p \in 1..Len(report_text) :
        /\ OccursAt(HeaderLine(i), report_text, p)
        /\ \E q \in (p + Len(HeaderLine(i)))..Len(report_text) :
              OccursAt(Chars("\n##"), report_text, q)

KeepsPlaceholder ==
    \A i \in Sections :
        (~HeaderOccurs(i) \/ (i <= 5 /\ ~MarkerFollows(i))) => Value(i) = Placeholder(i)

(* every present section of the report has a body of its own *)
WellFormed(l) ==
    /\ l.slots # <<>>
    /\ \A i \in Sections : l.slots[i] \in {"absent", "plain", "padded"}

Present(i) == layout.slots[i] # "absent"

(* C16 as stated: a section without its header, or (1-5) without a later
   "##" marker, keeps its placeholder, and leaving one section out of a
   report changes the value of no other present section. *)
C16_AbsenceLeavesOthersUnchanged ==
    Parsed =>
        /\ KeepsPlaceholder
        /\ (removed # 0 /\ WellFormed(before.layout)) =>
              \A k \in Sections \ {removed} :
                  Present(k) => Value(k) = before.sections[SectionKeys[k]]

(* C16 amended: as above, except that a section 1-5 which the removal
   leaves without any later header falls back to its placeholder. *)
C16_AbsenceLeavesFollowedSectionsUnchanged ==
    Parsed =>
        /\ KeepsPlaceholder
        /\ (removed # 0 /\ WellFormed(before.layout)) =>
              \A k \in Sections \ {removed} :
                  Present(k) =>
                      IF k = 6 \/ \E m \in (k + 1)..6 : Present(m)
                      THEN Value(k) = before.sections[SectionKeys[k]]
                      ELSE Value(k) = Placeholder(k)

C16_Witness ==
    /\ Parsed
    /\ removed = 3
    /\ WellFormed(before.layout)
    /\ \A k \in Sections \ {3} : Present(k) /\ Value(k) = before.sections[SectionKeys[k]]
    /\ Value(2) = Body(2)
    /\ Value(3) = Chars("No data available.")
    /\ before.sections[SectionKeys[3]] = Body(3)

(* the body a report gives to section i, as one text *)
BodyText(i) == JoinLines(BodyLines(i, layout.slots[i]))

(* six bodies that are non-empty, trimmed and without a line starting "##",
   under the six headers in order, the last body ending the document *)
RoundTripDocument ==
    /\ layout.slots # <<>>
    /\ removed = 0
    /\ ~layout.newline
    /\ \A i \in Sections : layout.slots[i] \in {"plain", "embedded"}

(* C17: such a document parses back to exactly its six bodies. *)
C17_RoundTrip ==
    (Parsed /\ RoundTripDocument) => \A i \in Sections : Value(i) = BodyText(i)

(* the places where the header line of section i, with its newline, stands *)
Occurrences(i) ==
    {p \in 1..Len(report_text) : OccursAt(HeaderLine(i) \o <<"\n">>, report_text, p)}

(* C18: when a header occurs more than once, the value is the placeholder or
   is read from the text that follows the first occurrence. *)
C18_FirstOccurrenceOnly ==
    Parsed =>
        \A i \in Sections :
            Cardinality(Occurrences(i)) > 1 =>
                LET from == Least(Occurrences(i)) + Len(HeaderLine(i))
                IN  \/ Value(i) = Placeholder(i)
                    \/ \E e \in from..Len(report_text) :
                          Value(i) = Strip(SubSeq(report_text, from + 1, e))

C18_Witness ==
    /\ Parsed
    /\ layout.slots # <<>>
    /\ layout.slots[1] = "twice"
    /\ Cardinality(Occurrences(1)) = 2
    /\ Value(1) = Body(1)

(* ------------------------------------------------------------------ *)
(* format_market_data (week2_data_fetcher.py)                          *)
(* ------------------------------------------------------------------ *)

TypeErrorFormat ==
    [kind |-> "TypeError", msg |-> "unsupported format string passed to NoneType.__format__"]
TypeErrorSubscript ==
    [kind |-> "TypeError", msg |-> "'NoneType' object is not subscriptable"]

Abs(x) == IF x < 0 THEN 0 - x ELSE x

(* the digits after the point in the repr of a float with m thousandths *)
Decimals(m) ==
    IF m % 100 = 0 THEN Digit(m \div 100)
    ELSE IF m % 10 = 0 THEN Pad2(m \div 10)
    ELSE Pad3(m)

(* str(x) of a float given in thousandths *)
FloatStr(n) ==
    (IF n < 0 THEN "-" ELSE "") \o IntStr(Abs(n) \div 1000) \o "." \o Decimals(Abs(n) % 1000)

(* str(v), which is also what an f-string field without a format type shows *)
PyStr(v) ==
    CASE v.t = "str"  -> v.s
      [] v.t = "none" -> "None"
      [] v.t = "num"  -> FloatStr(v.n)

(* f"{v:.2f}" of a float *)
FormatFixed2(v) == (IF v.n < 0 THEN "-" ELSE "") \o Fixed2(RoundDiv(Abs(v.n), 10))

(* s[:n] *)
Prefix(s, n) == IF Len(s) <= n THEN s ELSE SubSeq(s, 1, n)

RECURSIVE Spaces(_)
Spaces(n) == IF n <= 0 THEN "" ELSE " " \o Spaces(n - 1)

(* f"{s:<n}" *)
LeftAlign(s, n) == s \o Spaces(n - Len(s))

(* stands for the box-drawing bar between two columns *)
Bar == "|"

(* data["price_change"] > 0 *)
IsUpStrict(v) == v.n > 0

(* line 548: data["price_change"] >= 0 *)
IsUp(v) == v.n >= 0

FormatFrame == UNCHANGED <<fetchVars, callVars, parseVars, moreVars>>

(* lines 541-544 *)
CheckSuccess ==
    /\ pc = "done"
    /\ fpc = "idle"
    /\ IF ~result.success
       THEN /\ text' = <<"ERROR: Error fetching data for " \o PyStr(result.ticker)
                           \o ": " \o PyStr(result.error)>>
            /\ fpc' = "done"
       ELSE /\ fpc' = "change"
            /\ UNCHANGED text
    /\ UNCHANGED <<change_str, fexc>>
    /\ FormatFrame

(* lines 547-553: the price change indicator *)
BuildChange ==
    /\ fpc = "change"
    /\ LET data == result.data.d
       IN  IF data.price_change # None
           THEN IF data.price_change_percent = None
                THEN /\ fexc' = TypeErrorFormat
                     /\ fpc' = "raised"
                     /\ UNCHANGED change_str
                ELSE /\ change_str' =
                           IF IsUp(data.price_change)
                           THEN "UP +$" \o FormatFixed2(data.price_change) \o " (+"
                                \o FormatFixed2(data.price_change_percent) \o "%)"
                           ELSE "DOWN $" \o FormatFixed2(data.price_change) \o " ("
                                \o FormatFixed2(data.price_change_percent) \o "%)"
                     /\ fpc' = "render"
                     /\ UNCHANGED fexc
           ELSE /\ change_str' = "N/A"
                /\ fpc' = "render"
                /\ UNCHANGED fexc
    /\ UNCHANGED text
    /\ FormatFrame

(* lines 555-573: the lines of the box that hold data, without the border *)
Rendered(data) ==
    <<"  MARKET DATA: " \o LeftAlign(Prefix(data.company_name.s, 45), 45) \o " ",
      "  Ticker: " \o LeftAlign(PyStr(result.ticker), 12) \o "  " \o Bar \o "  Sector: "
          \o LeftAlign(Prefix(PyStr(data.sector), 25), 25) \o "  ",
      "  Price:  $" \o LeftAlign(PyStr(data.current_price), 10) \o "  " \o Bar
          \o "  Industry: " \o LeftAlign(Prefix(PyStr(data.industry), 23), 23) \o "  ",
      "  Change: " \o LeftAlign(change_str, 49) \o " ",
      "  Market Cap: " \o LeftAlign(data.market_cap_formatted.s, 15) \o "  P/E Ratio: "
          \o LeftAlign(Prefix(PyStr(data.pe_ratio), 10), 10) \o Spaces(9),
      "  EPS: " \o LeftAlign(PyStr(data.eps), 15) \o Spaces(11) \o "Beta: "
          \o LeftAlign(Prefix(PyStr(data.beta), 10), 10) \o Spaces(14),
      "  Day:     $" \o LeftAlign(Prefix(PyStr(data.day_low), 8), 8) \o " - $"
          \o LeftAlign(Prefix(PyStr(data.day_high), 8), 8) \o Spaces(26),
      "  52-Week: $" \o LeftAlign(Prefix(PyStr(data.fifty_two_week_low), 8), 8) \o " - $"
          \o LeftAlign(Prefix(PyStr(data.fifty_two_week_high), 8), 8) \o Spaces(26)>>

(* lines 555-573: the return statement; None has no [:45] and no "<10" *)
Render ==
    /\ fpc = "render"
    /\ LET data == result.data.d
       IN  IF data.company_name.t # "str"
           THEN fexc' = TypeErrorSubscript /\ fpc' = "raised" /\ UNCHANGED text
           ELSE IF data.current_price = None
           THEN fexc' = TypeErrorFormat /\ fpc' = "raised" /\ UNCHANGED text
           ELSE text' = Rendered(data) /\ fpc' = "done" /\ UNCHANGED fexc
    /\ UNCHANGED change_str
    /\ FormatFrame

FormatTickers == {<<"a", "a", "7">>, <<"-">>}

FormatInfos ==
    {EmptyDict,
     Dict([regularMarketPrice |-> PriceOf("regularMarketPrice")]),
     Dict([regularMarketPrice |-> PriceOf("regularMarketPrice"),
           shortName |-> FieldValue("shortName"), sector |-> None,
           trailingPE |-> FieldValue("trailingPE")]),
     Dict([sector |-> FieldValue("sector")])}

FormatCloses == {<<>>, <<100000>>, <<100000, 105000>>, <<105000, 100000>>,
                 <<100000, 100004>>, <<100000, 99333>>}

InitFormat ==
    /\ ticker \in FormatTickers
    /\ provider \in [info : FormatInfos, closes : FormatCloses, fail : {"none", "info"}]
    /\ FetchEntry
    /\ FirstCall
    /\ ParseIdle
    /\ FormatIdle
    /\ RestIdle

NextFormat ==
    \/ Next
    \/ CheckSuccess
    \/ BuildChange
    \/ Render

SpecFormat == InitFormat /\ [][NextFormat]_vars

(* ---- what the specification says of the rendering ---- *)

(* the indicator has been assigned *)
ChangeBuilt ==
    /\ pc = "done"
    /\ result.success
    /\ fpc \in {"render", "done", "raised"}
    /\ (result.data.d.price_change # None => result.data.d.price_change_percent # None)

(* X.XX of an amount that holds whole hundredths *)
TwoPlaces(v) ==
    LET h == Abs(v.n) \div 10
    IN  (IF v.n < 0 THEN "-" ELSE "") \o IntStr(h \div 100) \o "." \o Pad2(h % 100)

(* C19: the change indicator is "UP +$X.XX (+Y.YY%)" for a change that is
   not null and >= 0, "DOWN $X.XX (Y.YY%)" for one that is < 0, and "N/A"
   exactly when the change is null; a failed result gives the error line
   alone. *)
C19_ChangeIndicator ==
    /\ ChangeBuilt =>
          LET chg == result.data.d.price_change
              pct == result.data.d.price_change_percent
          IN  /\ (change_str = "N/A") <=> (chg = None)
              /\ (chg # None /\ chg.n >= 0) =>
                     change_str = "UP +$" \o TwoPlaces(chg) \o " (+" \o TwoPlaces(pct) \o "%)"
              /\ (chg # None /\ chg.n < 0) =>
                     change_str = "DOWN $" \o TwoPlaces(chg) \o " (" \o TwoPlaces(pct) \o "%)"
              /\ fpc = "done" =>
                     text[4] = "  Change: " \o LeftAlign(change_str, 49) \o " "
    /\ (pc = "done" /\ ~result.success /\ fpc = "done") =>
          /\ text = <<"ERROR: Error fetching data for " \o result.ticker.s \o ": "
                        \o result.error.s>>
          /\ change_str = ""

C19_Witness ==
    /\ ChangeBuilt
    /\ fpc = "done"
    /\ result.data.d.price_change = Num(0 - 5000)
    /\ change_str = "DOWN $-5.00 (-4.76%)"
    /\ text[4] = "  Change: DOWN $-5.00 (-4.76%)" \o Spaces(29) \o " "

(* ------------------------------------------------------------------ *)
(* fetch_market_data called twice                                      *)
(* ------------------------------------------------------------------ *)

(* the caller keeps the first result and calls again with the same
   argument; the provider answers as before and the clock has moved on *)
SecondCall ==
    /\ pc = "done"
    /\ call = 1
    /\ first' = result
    /\ call' = 2
    /\ now' = now + 1
    /\ ticker' = arg
    /\ pc' = "start"
    /\ info' = None
    /\ history' = <<>>
    /\ current_price' = None
    /\ price_change' = None
    /\ price_change_pct' = None
    /\ market_cap' = None
    /\ market_cap_formatted' = None
    /\ exc' = NoException
    /\ calls' = <<>>
    /\ result' = NoResult
    /\ UNCHANGED <<arg, provider, timestamp>>
    /\ UNCHANGED parseVars
    /\ UNCHANGED formatVars
    /\ UNCHANGED moreVars

NextTwice ==
    \/ Next
    \/ SecondCall

SpecTwice == Init /\ [][NextTwice]_vars

(* C20: the second of two calls with the same ticker and the same provider
   responses returns a result equal to the first in every field; only the
   timestamp, read from the clock at each return, differs. *)
C20_SecondCallReturnsTheSame ==
    (pc = "done" /\ call = 2) =>
        /\ result = first
        /\ timestamp = now

C20_Witness ==
    /\ pc = "done"
    /\ call = 2
    /\ first.success
    /\ result = first
    /\ result.data.d.price_change = Num(5000)
    /\ timestamp = 1

(* ------------------------------------------------------------------ *)
(* concurrent calls                                                    *)
(* ------------------------------------------------------------------ *)

(* one dict object for every call, as if `sections` were a module-level dict *)
SharedObject(c) == 1

(* line 10: the dict literal makes a new object in every call *)
NewObject(c) == c

ConcFrame ==
    UNCHANGED <<fetchVars, callVars, parseVars, formatVars, newsVars, allVars, laterVars>>

(* lines 10-27 in call c *)
BuildDictsIn(c) ==
    /\ call = 2
    /\ cpc[c] = "sections"
    /\ cobj' = [cobj EXCEPT ![c] = NewObject(c)]
    /\ heap' = [o \in DOMAIN heap \cup {NewObject(c)} |->
                   IF o = NewObject(c) THEN DefaultSections ELSE heap[o]]
    /\ cidx' = [cidx EXCEPT ![c] = 1]
    /\ cpc' = [cpc EXCEPT ![c] = "patterns"]
    /\ UNCHANGED <<ctext, cret, mutated>>
    /\ ConcFrame

(* lines 29-32 in call c: one turn of the loop *)
SearchPatternIn(c) ==
    /\ cpc[c] = "patterns"
    /\ cidx[c] <= Len(patterns)
    /\ LET match == re_search(patterns[cidx[c]], ctext[c])
       IN  heap' = IF match.found
                   THEN [heap EXCEPT ![cobj[c]][SectionKeys[cidx[c]]] = Captured(match)]
                   ELSE heap
    /\ cidx' = [cidx EXCEPT ![c] = cidx[c] + 1]
    /\ UNCHANGED <<ctext, cpc, cobj, cret, mutated>>
    /\ ConcFrame

(* line 34 in call c: the object itself is returned *)
ReturnSectionsIn(c) ==
    /\ cpc[c] = "patterns"
    /\ cidx[c] > Len(patterns)
    /\ cret' = [cret EXCEPT ![c] = cobj[c]]
    /\ cpc' = [cpc EXCEPT ![c] = "done"]
    /\ UNCHANGED <<ctext, cidx, cobj, heap, mutated>>
    /\ ConcFrame

(* the caller of call c writes into the map it received *)
MutateReturned(c) ==
    /\ cpc[c] = "done"
    /\ c \notin mutated
    /\ heap' = [heap EXCEPT ![cret[c]]["Executive Summary"] = Chars("changed by the caller")]
    /\ mutated' = mutated \cup {c}
    /\ UNCHANGED <<ctext, cpc, cidx, cobj, cret>>
    /\ ConcFrame

ConcurrentTexts ==
    {TextOf([slots |-> <<>>, lines |-> ls, newline |-> FALSE]) :
        ls \in {<<HeaderLine(1), <<"b">>, HeaderLine(6), Chars(" c ")>>,
                <<HeaderLine(6), <<"b">>>>,
                <<<<"b">>>>}}

ConcurrentProviders ==
    {[info |-> Dict([regularMarketPrice |-> PriceOf("regularMarketPrice")]),
      closes |-> <<100000, 105000>>, fail |-> "none"],
     [info |-> EmptyDict, closes |-> <<>>, fail |-> "info"]}

(* a call of fetch_market_data alone, then the same call again while two
   calls of parse_report_sections run *)
InitConcurrent ==
    /\ ticker \in {<<"a", "a", "7">>, <<"-">>}
    /\ provider \in ConcurrentProviders
    /\ FetchEntry
    /\ FirstCall
    /\ ParseIdle
    /\ FormatIdle
    /\ ctext \in [Calls -> ConcurrentTexts]
    /\ cpc = [c \in Calls |-> "sections"]
    /\ cidx = [c \in Calls |-> 0]
    /\ cobj = [c \in Calls |-> 0]
    /\ cret = [c \in Calls |-> 0]
    /\ heap = <<>>
    /\ mutated = {}
    /\ NewsIdle
    /\ AllIdle
    /\ LaterIdle

NextConcurrent ==
    \/ NextTwice
    \/ \E c \in Calls : BuildDictsIn(c)
    \/ \E c \in Calls : SearchPatternIn(c)
    \/ \E c \in Calls : ReturnSectionsIn(c)
    \/ \E c \in Calls : MutateReturned(c)

SpecConcurrent == InitConcurrent /\ [][NextConcurrent]_vars

(* what parse_report_sections returns for a document when it runs alone *)
Alone(s) ==
    [k \in {SectionKeys[i] : i \in Sections} |->
        LET i == CHOOSE j \in Sections : SectionKeys[j] = k
            match == re_search(patterns[i], s)
        IN  IF match.found THEN Strip(match.group) ELSE Placeholder(i)]

(* C21: whatever the interleaving, every call returns what it returns when
   run alone on its own arguments, the maps of two calls are two objects, and
   a caller writing into its map leaves the other call's map as it was. *)
C21_ConcurrentCallsAreIndependent ==
    /\ \A c \in Calls :
          (cpc[c] = "done" /\ c \notin mutated) => heap[cret[c]] = Alone(ctext[c])
    /\ (\A c \in Calls : cpc[c] = "done") => cret[1] # cret[2]
    /\ (pc = "done" /\ call = 2) => result = first

C21_Witness ==
    /\ cpc[1] = "done"
    /\ cpc[2] = "patterns"
    /\ cidx[2] = 3
    /\ 1 \in mutated
    /\ heap[cret[1]]["Executive Summary"] = Chars("changed by the caller")
    /\ heap[cobj[2]]["Executive Summary"] = <<"b">>
    /\ pc = "history"
    /\ call = 2

(* ------------------------------------------------------------------ *)
(* fetch_company_news (week2_data_fetcher.py)                          *)
(* ------------------------------------------------------------------ *)

(* MaxResponse: entries the search provider answers with; MaxWanted: the
   largest max_results *)
MaxResponse == 3
MaxWanted == 2

UpperLetters == Chars("ABCDEFGHIJKLMNOPQRSTUVWXYZ")
LowerLetters == Chars("abcdefghijklmnopqrstuvwxyz")

LowerChar(c) ==
    IF \E i \in DOMAIN UpperLetters : UpperLetters[i] = c
    THEN LowerLetters[CHOOSE i \in DOMAIN UpperLetters : UpperLetters[i] = c]
    ELSE c

(* str.lower() *)
Lower(s) == [i \in 1..Len(s) |-> LowerChar(s[i])]

(* line 384 *)
financial_keywords == <<"stock", "share", "market", "financial", "earnings", "investor">>

(* line 385: any(kw in query.lower() for kw in financial_keywords) *)
has_financial_context(q) ==
    \E i \in DOMAIN financial_keywords :
        IsSubstring(Chars(financial_keywords[i]), Lower(Chars(q)))

(* lines 366-374 *)
EmptyQueryResult(q) ==
    [success |-> FALSE, query |-> q, articles |-> <<>>, article_count |-> 0,
     error |-> Str("Empty search query provided.")]

(* lines 432-440 *)
NewsSuccessResult(q, e, as) ==
    [success |-> TRUE, query |-> q, enhanced_query |-> e, articles |-> as,
     article_count |-> Len(as), error |-> None]

(* lines 446-453 *)
NewsFailureResult(q, e) ==
    [success |-> FALSE, query |-> q, articles |-> <<>>, article_count |-> 0,
     error |-> Str(e.kind \o ": " \o e.msg)]

(* lines 419-425 *)
Article(r) ==
    Dict([title     |-> GetDefault(r, "title", Str("No title")),
          url       |-> GetDefault(r, "url", Str("")),
          snippet   |-> GetDefault(r, "body", Str("No description available.")),
          source    |-> GetDefault(r, "source", Str("Unknown")),
          published |-> GetDefault(r, "date", Str("Unknown date"))])

(* results[:n] for n >= 0 *)
FirstN(rs, n) == SubSeq(rs, 1, IF n < Len(rs) THEN n ELSE Len(rs))

(* the loop of lines 418-429 without the filter on the url *)
RECURSIVE KeptUnfiltered(_)
KeptUnfiltered(rs) ==
    IF rs = <<>> THEN <<>>
    ELSE <<Article(Head(rs))>> \o KeptUnfiltered(Tail(rs))

(* the loop of lines 418-429: the articles with a url, in order *)
RECURSIVE Kept(_)
Kept(rs) ==
    IF rs = <<>> THEN <<>>
    ELSE (IF Truthy(Article(Head(rs)).d.url) THEN <<Article(Head(rs))>> ELSE <<>>)
         \o Kept(Tail(rs))

NewsFrame == UNCHANGED <<fetchVars, callVars, parseVars, formatVars, concVars, laterVars>>

NewsRaise(e) == nexc' = e /\ npc' = "except"

(* lines 365-377: an empty or blank query is rejected *)
NewsValidate ==
    /\ npc = "start"
    /\ IF nquery = "" \/ Strip(Chars(nquery)) = <<>>
       THEN /\ nresult' = EmptyQueryResult(nquery)
            /\ npc' = "done"
            /\ UNCHANGED query
       ELSE /\ query' = Join(Strip(Chars(nquery)))
            /\ npc' = "enhance"
            /\ UNCHANGED nresult
    /\ UNCHANGED <<nquery, nmax, nprovider, enhanced_query, results, articles, nexc,
                   searches>>
    /\ UNCHANGED allVars
    /\ NewsFrame

(* lines 384-391 *)
NewsEnhance ==
    /\ npc = "enhance"
    /\ enhanced_query' = IF ~has_financial_context(query)
                         THEN query \o " stock news"
                         ELSE query
    /\ npc' = "search"
    /\ UNCHANGED <<nquery, nmax, nprovider, query, results, articles, nexc, searches,
                   nresult>>
    /\ UNCHANGED allVars
    /\ NewsFrame

(* lines 397-411: DDGS() and ddgs.news(...), either of which may raise *)
NewsSearch ==
    /\ npc = "search"
    /\ articles' = <<>>
    /\ IF nprovider.fail = "DDGS"
       THEN NewsRaise(ProviderError) /\ UNCHANGED <<results, searches>>
       ELSE /\ searches' = Append(searches, [keywords |-> enhanced_query,
                                             max_results |-> nmax + 3])
            /\ IF nprovider.fail = "news"
               THEN NewsRaise(ProviderError) /\ UNCHANGED results
               ELSE results' = nprovider.response /\ npc' = "process" /\ UNCHANGED nexc
    /\ UNCHANGED <<nquery, nmax, nprovider, query, enhanced_query, nresult>>
    /\ UNCHANGED allVars
    /\ NewsFrame

(* lines 418-429: the loop; result.get of an entry that is no dict raises *)
NewsProcess ==
    /\ npc = "process"
    /\ LET taken == FirstN(results, nmax)
           bad == {i \in DOMAIN taken : taken[i].t # "dict"}
       IN  IF bad # {}
           THEN /\ articles' = Kept(SubSeq(taken, 1, Least(bad) - 1))
                /\ NewsRaise(AttributeErrorNone)
           ELSE /\ articles' = Kept(taken)
                /\ npc' = "return"
                /\ UNCHANGED nexc
    /\ UNCHANGED <<nquery, nmax, nprovider, query, enhanced_query, results, searches,
                   nresult>>
    /\ UNCHANGED allVars
    /\ NewsFrame

(* lines 432-440 *)
NewsReturn ==
    /\ npc = "return"
    /\ nresult' = NewsSuccessResult(query, enhanced_query, articles)
    /\ npc' = "done"
    /\ UNCHANGED <<nquery, nmax, nprovider, query, enhanced_query, results, articles,
                   nexc, searches>>
    /\ UNCHANGED allVars
    /\ NewsFrame

(* lines 442-454 *)
NewsExcept ==
    /\ npc = "except"
    /\ nresult' = NewsFailureResult(query, nexc)
    /\ npc' = "done"
    /\ UNCHANGED <<nquery, nmax, nprovider, query, enhanced_query, results, articles,
                   nexc, searches>>
    /\ UNCHANGED allVars
    /\ NewsFrame

NewsQueries == {"", "  ", " Tesla ", "AA7 stock", "Apple Inc. (AA7)", "STOCK tips"}

NewsEntries ==
    {Dict([title |-> Str("Shares rally"), url |-> Str("https://a.example/1"),
           body |-> Str("Text"), source |-> Str("Wire"), date |-> Str("2025-01-01")]),
     Dict([url |-> Str("https://b.example/2")]),
     Dict([title |-> Str("No link"), url |-> Str("")]),
     Dict([title |-> Str("Link missing")]),
     Dict([title |-> Str("Link null"), url |-> None]),
     None}

NewsProviders ==
    [response : SeqsUpTo(NewsEntries, MaxResponse), fail : {"none"}]
    \cup [response : {<<>>}, fail : {"DDGS", "news"}]

InitNews ==
    /\ nquery \in NewsQueries
    /\ nmax \in 0..MaxWanted
    /\ nprovider \in NewsProviders
    /\ npc = "start"
    /\ NewsEntry
    /\ FetchIdle
    /\ FirstCall
    /\ ParseIdle
    /\ FormatIdle
    /\ ConcIdle
    /\ AllIdle
    /\ LaterIdle

NextNews ==
    \/ NewsValidate
    \/ NewsEnhance
    \/ NewsSearch
    \/ NewsProcess
    \/ NewsReturn
    \/ NewsExcept

SpecNews == InitNews /\ [][NextNews]_vars

(* ---- what is claimed of fetch_company_news ---- *)

IsBlank(q) == \A i \in 1..Len(q) : SubSeq(q, i, i) \in {" ", "\t", "\n"}

(* C23: article_count is the number of articles and at most max_results,
   every article has a non-empty url, a failure has no articles, count 0 and
   an error, and a blank query fails without a search. *)
C23_NewsResultInvariant ==
    npc = "done" =>
        /\ nresult.article_count = Len(nresult.articles)
        /\ nresult.article_count <= nmax
        /\ \A i \in DOMAIN nresult.articles :
              /\ nresult.articles[i].d.url # None
              /\ nresult.articles[i].d.url # Str("")
        /\ ~nresult.success =>
              /\ nresult.articles = <<>>
              /\ nresult.article_count = 0
              /\ nresult.error # None
        /\ IsBlank(nquery) => (~nresult.success /\ searches = <<>>)

C23_Witness ==
    /\ npc = "done"
    /\ nresult.success
    /\ Len(nprovider.response) = 3
    /\ nmax = 2
    /\ nresult.article_count = 1
    /\ nprovider.response[1].t = "dict"
    /\ ~Truthy(Article(nprovider.response[1]).d.url)
    /\ searches = <<[keywords |-> "Tesla stock news", max_results |-> 5]>>

(* ------------------------------------------------------------------ *)
(* fetch_all_data (week2_data_fetcher.py)                              *)
(* ------------------------------------------------------------------ *)

(* overall success that needs both sources *)
OverallSuccessOfBoth(m, n) == m.success /\ n.success

(* line 514 *)
OverallSuccess(m, n) == m.success \/ n.success

AllFrame == UNCHANGED <<parseVars, formatVars, concVars, laterVars>>

(* lines 498-501: normalize the ticker and call fetch_market_data with it *)
AllNormalize ==
    /\ apc = "start"
    /\ arg' = Upper(Strip(aticker))
    /\ ticker' = arg'
    /\ pc' = "start"
    /\ apc' = "market"
    /\ UNCHANGED <<provider, info, history, current_price, price_change,
                   price_change_pct, market_cap, market_cap_formatted, exc, calls,
                   result>>
    /\ UNCHANGED <<aticker, news_count, aresult>>
    /\ UNCHANGED <<callVars, newsVars>>
    /\ AllFrame

(* lines 504-511: build the news query and call fetch_company_news *)
AllNewsQuery ==
    /\ apc = "market"
    /\ pc = "done"
    /\ nquery' = IF result.success /\ Truthy(result.data)
                 THEN PyStr(GetDefault(result.data, "company_name", Str(Join(arg))))
                      \o " (" \o Join(arg) \o ")"
                 ELSE Join(arg) \o " stock"
    /\ nmax' = news_count
    /\ npc' = "start"
    /\ apc' = "news"
    /\ UNCHANGED <<nprovider, query, enhanced_query, results, articles, nexc, searches,
                   nresult>>
    /\ UNCHANGED <<aticker, news_count, aresult>>
    /\ UNCHANGED <<fetchVars, callVars>>
    /\ AllFrame

(* lines 514-522 *)
AllReturn ==
    /\ apc = "news"
    /\ npc = "done"
    /\ aresult' = [ticker |-> Join(arg), market_data |-> result, news |-> nresult,
                   overall_success |-> OverallSuccess(result, nresult)]
    /\ apc' = "done"
    /\ UNCHANGED <<aticker, news_count>>
    /\ UNCHANGED <<fetchVars, callVars, newsVars>>
    /\ AllFrame

AllTickers == {<<"a", "a", "7">>, <<" ", "a", " ">>, <<"-">>, <<>>}

AllProviders ==
    {[info |-> Dict([regularMarketPrice |-> PriceOf("regularMarketPrice"),
                     shortName |-> FieldValue("shortName")]),
      closes |-> <<100000, 105000>>, fail |-> "none"],
     [info |-> Dict([regularMarketPrice |-> PriceOf("regularMarketPrice")]),
      closes |-> <<100000>>, fail |-> "none"],
     [info |-> EmptyDict, closes |-> <<>>, fail |-> "none"],
     [info |-> EmptyDict, closes |-> <<>>, fail |-> "info"]}

AllNewsProviders ==
    {[response |-> <<Dict([url |-> Str("https://b.example/2")]),
                     Dict([title |-> Str("No link"), url |-> Str("")])>>, fail |-> "none"],
     [response |-> <<>>, fail |-> "none"],
     [response |-> <<>>, fail |-> "DDGS"],
     [response |-> <<>>, fail |-> "news"]}

InitAll ==
    /\ aticker \in AllTickers
    /\ news_count \in 0..1
    /\ apc = "start"
    /\ aresult = NoCombinedResult
    /\ provider \in AllProviders
    /\ arg = <<>>
    /\ ticker = <<>>
    /\ pc = "idle"
    /\ info = None
    /\ history = <<>>
    /\ current_price = None
    /\ price_change = None
    /\ price_change_pct = None
    /\ market_cap = None
    /\ market_cap_formatted = None
    /\ exc = NoException
    /\ calls = <<>>
    /\ result = NoResult
    /\ FirstCall
    /\ nquery = ""
    /\ nmax = 0
    /\ nprovider \in AllNewsProviders
    /\ npc = "idle"
    /\ NewsEntry
    /\ ParseIdle
    /\ FormatIdle
    /\ ConcIdle
    /\ LaterIdle

NextAll ==
    \/ AllNormalize
    \/ Next
    \/ AllNewsQuery
    \/ NextNews
    \/ AllReturn

SpecAll == InitAll /\ [][NextAll]_vars

(* C22: fetch_all_data always calls the news fetch, with "<ticker> stock"
   when the market data failed, returns both results, and overall_success
   is true exactly when one of them succeeded. *)
C22_BothFetchedAndOverallSuccess ==
    apc = "done" =>
        /\ pc = "done"
        /\ npc = "done"
        /\ aresult.market_data = result
        /\ aresult.news = nresult
        /\ nmax = news_count
        /\ (nprovider.fail = "none") => Len(searches) = 1
        /\ ~result.success => nquery = Join(Upper(Strip(aticker))) \o " stock"
        /\ aresult.overall_success <=> (aresult.market_data.success \/ aresult.news.success)

C22_Witness ==
    /\ apc = "done"
    /\ ~aresult.market_data.success
    /\ aresult.news.success
    /\ aresult.overall_success
    /\ nquery = "A stock"
    /\ aresult.news.article_count = 1

(* ------------------------------------------------------------------ *)
(* FinancialDataTool (yan-cotta/src/tools/financial_data.py)           *)
(* ------------------------------------------------------------------ *)

(* base.py 29-36: ToolError(tool_name, message) *)
ToolError(message) == [kind |-> "ToolError", msg |-> message]

ValueErrorFormat == [kind |-> "ValueError", msg |-> "Unknown format code"]
TypeErrorCompare == [kind |-> "TypeError", msg |-> "'>=' not supported"]
TypeErrorAssign == [kind |-> "TypeError", msg |-> "'NoneType' object does not support item assignment"]

(* lines 110-113 *)
safe_get(i, key, default) ==
    LET value == Get(i, key) IN IF value # None THEN value ELSE default

IsZero(v) == IsNumber(v) /\ ~Truthy(v)

(* lines 115-125; a text cannot be compared with 1e12 *)
LargeNumberRaises(v) == v.t = "str"
format_large_number(v) ==
    IF v = None \/ IsZero(v) THEN "N/A" ELSE FormatMarketCap(v)

(* lines 127-169, the keys that _format_output's modelled lines read; the
   other keys are read with safe_get in the same way *)
ExtractRaises(i) == LargeNumberRaises(safe_get(i, "marketCap", None))
extract_metrics(i) ==
    Dict([company_name |-> PyOr(safe_get(i, "shortName", None),
                                safe_get(i, "longName", Str("Unknown"))),
          sector |-> safe_get(i, "sector", NA),
          current_price |-> PyOr(safe_get(i, "regularMarketPrice", None),
                                 safe_get(i, "currentPrice", None)),
          currency |-> safe_get(i, "currency", Str("USD")),
          market_cap_formatted |-> Str(format_large_number(safe_get(i, "marketCap", None))),
          profit_margin |-> safe_get(i, "profitMargins", None),
          volume |-> safe_get(i, "volume", None)])

(* str(v) of a text, None, a float or an int below 10^6 *)
ToolStr(v) == IF v.t = "int" THEN IntStr(v.lo) ELSE PyStr(v)

(* lines 174-180 *)
fmt(value, prefix) ==
    IF value = None \/ value = NA THEN "N/A"
    ELSE IF value.t = "num" THEN prefix \o FormatFixed2(value)
    ELSE prefix \o ToolStr(value)

(* lines 182-186: a text times 100 is a text, which .2f rejects *)
PctRaises(value) == value # None /\ value.t = "str"
fmt_pct(value) ==
    IF value = None THEN "N/A" ELSE FormatFixed2(Num(value.n * 100)) \o "%"

(* line 218: the "," format rejects a text *)
VolumeRaises(value) == Truthy(value) /\ value.t = "str"
VolumeLine(value) ==
    IF Truthy(value) THEN "  Volume:            " \o Thousands(value.lo)
    ELSE "  Volume:            N/A"

FormatRaises(d) == PctRaises(d.d.profit_margin) \/ VolumeRaises(d.d.volume)

(* lines 188-230: the header line and one line of each kind of field *)
format_output(t, d) ==
    << "FINANCIAL DATA: " \o ToolStr(d.d.company_name) \o " (" \o Join(t) \o ")",
       "  Current Price:     " \o fmt(d.d.current_price, "$") \o " " \o ToolStr(d.d.currency),
       "  Market Cap:        " \o ToolStr(d.d.market_cap_formatted),
       "  Profit Margin:     " \o fmt_pct(d.d.profit_margin),
       VolumeLine(d.d.volume),
       "  Sector:            " \o ToolStr(d.d.sector) >>

ToolFrame ==
    UNCHANGED <<fetchVars, callVars, parseVars, formatVars, concVars, newsVars, allVars,
                graphVars, memVars>>

(* lines 56-58 *)
ToolCheckLibrary ==
    /\ tpc = "start"
    /\ IF ~tlib
       THEN /\ tret' = <<"ERROR: yfinance library is not installed. Run: pip install yfinance">>
            /\ tpc' = "done"
       ELSE /\ tpc' = "normalize"
            /\ UNCHANGED tret
    /\ UNCHANGED <<tinput, tlib, tprovider, tticker, tinfo, tdata, texc, tescaped>>
    /\ ToolFrame

(* line 60 with lines 72-76: the call stands before the try statement, so
   the ToolError of an empty input leaves _run *)
ToolNormalize ==
    /\ tpc = "normalize"
    /\ IF tinput = <<>>
       THEN /\ tescaped' = ToolError("Empty ticker symbol provided")
            /\ tpc' = "raised"
            /\ UNCHANGED tticker
       ELSE /\ tticker' = Upper(Strip(tinput))
            /\ tpc' = "fetch"
            /\ UNCHANGED tescaped
    /\ UNCHANGED <<tinput, tlib, tprovider, tinfo, tdata, texc, tret>>
    /\ ToolFrame

ToolRaise(e) == texc' = e /\ tpc' = "except" /\ UNCHANGED <<tinfo, tdata, tret>>

(* lines 62-63 with 91-103: _fetch_data up to the call of _extract_metrics *)
ToolFetch ==
    /\ tpc = "fetch"
    /\ IF tprovider.fail \in {"Ticker", "info"} THEN ToolRaise(ProviderError)
       ELSE IF ~Truthy(tprovider.info) \/ Get(tprovider.info, "regularMarketPrice") = None
       THEN IF tprovider.fail = "history:5d" THEN ToolRaise(ProviderError)
            ELSE IF tprovider.closes = <<>>
            THEN ToolRaise(ToolError("No data found for ticker '" \o Join(tticker)
                                     \o "'. Verify the symbol is correct."))
            ELSE IF tprovider.info = None THEN ToolRaise(TypeErrorAssign)
            ELSE /\ tinfo' = Dict([k \in DOMAIN tprovider.info.d \cup {"regularMarketPrice"} |->
                                     IF k = "regularMarketPrice"
                                     THEN Num(tprovider.closes[Len(tprovider.closes)])
                                     ELSE tprovider.info.d[k]])
                 /\ tpc' = "extract"
                 /\ UNCHANGED <<tdata, texc, tret>>
       ELSE /\ tinfo' = tprovider.info
            /\ tpc' = "extract"
            /\ UNCHANGED <<tdata, texc, tret>>
    /\ UNCHANGED <<tinput, tlib, tprovider, tticker, tescaped>>
    /\ ToolFrame

(* line 105 with 107-169 *)
ToolExtract ==
    /\ tpc = "extract"
    /\ IF ExtractRaises(tinfo) THEN ToolRaise(TypeErrorCompare)
       ELSE /\ tdata' = extract_metrics(tinfo)
            /\ tpc' = "format"
            /\ UNCHANGED <<tinfo, texc, tret>>
    /\ UNCHANGED <<tinput, tlib, tprovider, tticker, tescaped>>
    /\ ToolFrame

(* line 64 with 171-230 *)
ToolFormat ==
    /\ tpc = "format"
    /\ IF FormatRaises(tdata) THEN ToolRaise(ValueErrorFormat)
       ELSE /\ tret' = format_output(tticker, tdata)
            /\ tpc' = "done"
            /\ UNCHANGED <<tinfo, tdata, texc>>
    /\ UNCHANGED <<tinput, tlib, tprovider, tticker, tescaped>>
    /\ ToolFrame

(* lines 65-67 *)
ToolExceptToolError ==
    /\ tpc = "except"
    /\ texc.kind = "ToolError"
    /\ tret' = <<"ERROR: " \o texc.msg>>
    /\ tpc' = "done"
    /\ UNCHANGED <<tinput, tlib, tprovider, tticker, tinfo, tdata, texc, tescaped>>
    /\ ToolFrame

(* lines 68-70 *)
ToolExceptException ==
    /\ tpc = "except"
    /\ texc.kind # "ToolError"
    /\ tret' = <<"ERROR: Unexpected error fetching data for '" \o Join(tticker) \o "': "
                 \o texc.kind>>
    /\ tpc' = "done"
    /\ UNCHANGED <<tinput, tlib, tprovider, tticker, tinfo, tdata, texc, tescaped>>
    /\ ToolFrame

ToolInputs == {<<>>, <<" ">>, <<" ", "\t">>, <<"a", "a", "7">>, <<" ", "a", " ">>, <<"-">>}

ToolInfos ==
    {None, EmptyDict,
     Dict([regularMarketPrice |-> Num(150256), shortName |-> Str("Apple Inc."),
           sector |-> Str("Technology"), marketCap |-> Whole(2500000, 0),
           profitMargins |-> Num(253), volume |-> Whole(0, 52000)]),
     Dict([regularMarketPrice |-> None, longName |-> Str("Apple Inc."), marketCap |-> Num(0),
           volume |-> Whole(0, 0)]),
     Dict([regularMarketPrice |-> Num(150256), marketCap |-> Str("2.5B")]),
     Dict([regularMarketPrice |-> Num(150256), profitMargins |-> Str("25%")]),
     Dict([regularMarketPrice |-> Str("n/a"), volume |-> Str("52k")])}

ToolProviders ==
    {[info |-> i, closes |-> c, fail |-> "none"] : i \in ToolInfos, c \in {<<>>, <<100000, 105000>>}}
    \cup {[info |-> EmptyDict, closes |-> <<>>, fail |-> f] : f \in {"Ticker", "info", "history:5d"}}

InitTool ==
    /\ tinput \in ToolInputs
    /\ tlib \in BOOLEAN
    /\ tprovider \in ToolProviders
    /\ tpc = "start"
    /\ tticker = <<>>
    /\ tinfo = None
    /\ tdata = None
    /\ texc = NoException
    /\ tret = <<>>
    /\ tescaped = NoException
    /\ FetchIdle
    /\ FirstCall
    /\ ParseIdle
    /\ FormatIdle
    /\ ConcIdle
    /\ NewsIdle
    /\ AllIdle
    /\ GraphIdle
    /\ MemIdle

NextTool ==
    \/ ToolCheckLibrary
    \/ ToolNormalize
    \/ ToolFetch
    \/ ToolExtract
    \/ ToolFormat
    \/ ToolExceptToolError
    \/ ToolExceptException

SpecTool == InitTool /\ [][NextTool]_vars

(* C24: _run ends, for every input, with a returned text that is the data
   block or starts with "ERROR:", and with no exception leaving it. *)
C24_RunAlwaysReturnsText ==
    /\ tpc # "raised"
    /\ tescaped = NoException
    /\ tpc = "done" =>
          /\ tret # <<>>
          /\ \/ StartsWith(tret[1], "ERROR:")
             \/ StartsWith(tret[1], "FINANCIAL DATA: ")

(* ------------------------------------------------------------------ *)
(* The workflow graph (prateek-mulye/src/graph.py)                     *)
(* ------------------------------------------------------------------ *)

(* line 19 *)
EntryPoint == "manager"

(* edges in which the reporter also follows the manager directly *)
EdgesWithShortcut ==
    {<<"manager", "researcher">>, <<"manager", "analyst">>, <<"manager", "reporter">>,
     <<"researcher", "reporter">>, <<"analyst", "reporter">>, <<"reporter", "END">>}

(* lines 22-30 *)
Edges ==
    {<<"manager", "researcher">>, <<"manager", "analyst">>,
     <<"researcher", "reporter">>, <<"analyst", "reporter">>, <<"reporter", "END">>}

(* the nodes that the edges leaving a set of nodes lead to *)
Successors(ns) == {e[2] : e \in {d \in Edges : d[1] \in ns}} \cap GraphNodes

(* researcher.py 73-80: the summary document; the analyst's document as
   tests/test_flow.py line 63 looks for it *)
SummaryDoc == [source |-> "researcher_agent_summary", type |-> "market_summary"]
AnalystDoc == [source |-> "analyst_agent", type |-> "analysis"]

(* what a node adds to the vector memory before it returns *)
Stored(n) == CASE n = "researcher" -> {SummaryDoc}
               [] n = "analyst"    -> {AnalystDoc}
               [] OTHER            -> {}

GraphFrame ==
    UNCHANGED <<fetchVars, callVars, parseVars, formatVars, concVars, newsVars, allVars,
                toolVars, memVars>>

(* app.invoke(initial_state): the first step runs the entry point *)
GraphInvoke ==
    /\ gstatus = "idle"
    /\ gstatus' = "running"
    /\ gactive' = {EntryPoint}
    /\ UNCHANGED <<gnode, gruns, gstore, gseen, gfail>>
    /\ GraphFrame

(* a node of the current step starts; the reporter begins with its
   similarity search (reporter.py line 23) *)
NodeStart(n) ==
    /\ gstatus = "running"
    /\ n \in gactive
    /\ gnode[n] = "waiting"
    /\ gnode' = [gnode EXCEPT ![n] = "running"]
    /\ gruns' = [gruns EXCEPT ![n] = @ + 1]
    /\ gseen' = IF n = "reporter" THEN gstore ELSE gseen
    /\ UNCHANGED <<gstatus, gactive, gstore, gfail>>
    /\ GraphFrame

(* the node returns its state update; researcher.py line 83 has stored the
   summary before the return of lines 87-90 *)
NodeFinish(n) ==
    /\ gnode[n] = "running"
    /\ n \notin gfail
    /\ gnode' = [gnode EXCEPT ![n] = "done"]
    /\ gstore' = gstore \cup Stored(n)
    /\ UNCHANGED <<gstatus, gactive, gruns, gseen, gfail>>
    /\ GraphFrame

(* an external call of the node raises (search, model or memory client);
   no node catches it and the invocation ends with the exception *)
NodeRaise(n) ==
    /\ gnode[n] = "running"
    /\ n \in gfail
    /\ gnode' = [gnode EXCEPT ![n] = "raised"]
    /\ gstatus' = "raised"
    /\ UNCHANGED <<gactive, gruns, gstore, gseen, gfail>>
    /\ GraphFrame

(* every node of the step has returned: the next step runs the nodes their
   edges lead to, or the invocation returns when only END is left *)
SuperStep ==
    /\ gstatus = "running"
    /\ gactive # {}
    /\ \A n \in gactive : gnode[n] = "done"
    /\ gactive' = Successors(gactive)
    /\ gnode' = [n \in GraphNodes |-> IF n \in Successors(gactive) THEN "waiting" ELSE gnode[n]]
    /\ gstatus' = IF Successors(gactive) = {} THEN "ended" ELSE "running"
    /\ UNCHANGED <<gruns, gstore, gseen, gfail>>
    /\ GraphFrame

InitGraph ==
    /\ gstatus = "idle"
    /\ gactive = {}
    /\ gnode = [n \in GraphNodes |-> "waiting"]
    /\ gruns = [n \in GraphNodes |-> 0]
    /\ gstore = {}
    /\ gseen = {}
    /\ gfail \in SUBSET GraphNodes
    /\ FetchIdle
    /\ FirstCall
    /\ ParseIdle
    /\ FormatIdle
    /\ ConcIdle
    /\ NewsIdle
    /\ AllIdle
    /\ ToolIdle
    /\ MemIdle

NextGraph ==
    \/ GraphInvoke
    \/ \E n \in GraphNodes : NodeStart(n)
    \/ \E n \in GraphNodes : NodeFinish(n)
    \/ \E n \in GraphNodes : NodeRaise(n)
    \/ SuperStep

(* the library runs every started node to its end and every step whose
   nodes have returned is followed by the next *)
SpecGraph == InitGraph /\ [][NextGraph]_vars /\ WF_vars(NextGraph)

Started(n) == gnode[n] # "waiting" \/ gruns[n] > 0

(* the order in which the nodes run *)
GraphOrder ==
    /\ \A n \in GraphNodes : gruns[n] <= 1
    /\ \A n \in GraphNodes \ {"manager"} : Started(n) => gnode["manager"] = "done"
    /\ Started("reporter") =>
          /\ gnode["researcher"] = "done"
          /\ gnode["analyst"] = "done"
          /\ SummaryDoc \in gseen
    /\ gstatus = "ended" => gnode["reporter"] = "done"

EndedAfterReporter ==
    /\ gstatus = "ended"
    /\ \A n \in GraphNodes : gruns[n] = 1 /\ gnode[n] = "done"

(* C25: in every execution the manager runs first, researcher and analyst
   run once each after it, the reporter runs once after both have returned
   and finds the researcher's summary in the memory, and the workflow ends
   after the reporter. *)
C25_EveryExecutionEndsAfterReporter ==
    /\ []GraphOrder
    /\ <>EndedAfterReporter

(* C25, amended: the order holds in every execution; the workflow ends
   after the reporter in every execution in which no node raises. *)
C25_OrderedAndEndsUnlessNodeRaises ==
    /\ []GraphOrder
    /\ (gfail = {}) => <>EndedAfterReporter
    /\ (gfail # {}) => <>[](gstatus = "raised" /\ gnode["reporter"] # "done")

C25_Witness ==
    /\ EndedAfterReporter
    /\ gseen = {SummaryDoc, AnalystDoc}

(* ------------------------------------------------------------------ *)
(* format_market_data on every result of fetch_market_data             *)
(* ------------------------------------------------------------------ *)

(* C26: for every result fetch_market_data returns, format_market_data
   returns a text and raises nothing. *)
C26_FormatNeverRaises ==
    /\ fpc # "raised"
    /\ fexc = NoException
    /\ fpc = "done" => text # <<>>

(* ------------------------------------------------------------------ *)
(* MemoryTool (yan-cotta/src/tools/memory.py)                          *)
(* ------------------------------------------------------------------ *)

MaxDocs == 2
MaxClock == 1
MaxClears == 1

MemCommands ==
    {"list", " clear ", "save:news:Apple up", "save: NEWS : Apple up ", "save:misc:a:b",
     "save:news", "save:news:  ", "retrieve:Apple", "retrieve: ", "forget", "", "save"}

MemCategories == {"news", "a"}
MemContents == {"Apple up", " "}

(* line 240 *)
ContextCommand(category, content) == "save:" \o category \o ":" \o content

AllCommands ==
    MemCommands \cup {ContextCommand(g, c) : g \in MemCategories, c \in MemContents}

(* line 106, for every command of the model *)
Stripped == [command \in AllCommands |-> Strip(Chars(command))]

(* line 104 *)
Unavailable == <<"ERROR: Memory system not available. ChromaDB may not be installed.">>

(* lines 118-124, line by line *)
UsageError ==
    <<"ERROR: Unknown command. Use:", "  - save:<category>:<content>",
      "  - retrieve:<query>", "  - list", "  - clear">>

(* line 127 *)
MemoryError(kind) == <<"ERROR: Memory operation failed: " \o kind>>

(* what a path through _run leaves behind: the returned lines, the
   collection, the instance's handle and the store operations attempted *)
Answer(ret, store, handle, ops) ==
    [ret |-> ret, store |-> store, handle |-> handle, ops |-> ops]

StoreOp(op, error) == [op |-> op, error |-> error]

(* a handle to a collection that was deleted since *)
Stale(store, h) == ~store.exists \/ h # store.gen

(* the exception a store operation ends with, "" for none: the failure
   chosen for this call ("store": the first operation the call attempts
   raises), or the store's answer to a stale handle *)
Raised(op, fail, store, h) ==
    IF fail = "store" THEN "InternalError"
    ELSE IF Stale(store, h) THEN "NotFoundError"
    ELSE ""

(* s.find(":") + 1 *)
FirstColon(s) ==
    IF \E i \in 1..Len(s) : s[i] = ":"
    THEN CHOOSE i \in 1..Len(s) : s[i] = ":" /\ \A j \in 1..(i - 1) : s[j] # ":"
    ELSE 0

(* line 142 *)
valid_categories == {"news", "metrics", "analysis", "general"}

HasId(docs, id) == \E k \in 1..Len(docs) : docs[k].id = id

(* line 161 *)
SavedText(category, t) ==
    <<"[OK] Saved to memory [" \o category \o "]: " \o Prefix(t, 100)
      \o (IF Len(t) > 100 THEN "..." ELSE "")>>

(* lines 131-144: what _save reads from the text after "save:" *)
SaveArguments(content) ==
    LET colon == FirstColon(content)
        named == Join(Lower(Strip(SubSeq(content, 1, colon - 1))))
    IN  [colon |-> colon,
         category |-> IF named \in valid_categories THEN named ELSE "general",
         text |-> Join(Strip(SubSeq(content, colon + 1, Len(content))))]

(* line 110 with 131-144, for every save command of the model *)
Arguments ==
    [command \in {c \in AllCommands : StartsWith(Stripped[c], Chars("save:"))} |->
        SaveArguments(SubSeq(Stripped[command], 6, Len(Stripped[command])))]

(* lines 129-161; strftime('%Y%m%d_%H%M%S_%f') shows the clock reading
   digit by digit, here as its decimal number *)
save(command, fail, store, h, clock, policy) ==
    LET colon == Arguments[command].colon
        t == Arguments[command].text
        category == Arguments[command].category
        doc_id == category \o "_" \o IntStr(clock)
        doc == [id |-> doc_id, text |-> t, category |-> category, timestamp |-> clock]
        error == Raised("add", fail, store, h)
    IN  IF colon = 0
        THEN Answer(<<"ERROR: Save format is 'save:<category>:<content>'">>, store, h, <<>>)
        ELSE IF t = ""
        THEN Answer(<<"ERROR: Cannot save empty content">>, store, h, <<>>)
        ELSE IF error # ""
        THEN Answer(MemoryError(error), store, h, <<StoreOp("add", error)>>)
        ELSE IF HasId(store.docs, doc_id)
        THEN IF policy = "raise"
             THEN Answer(MemoryError("DuplicateIDError"), store, h,
                         <<StoreOp("add", "DuplicateIDError")>>)
             ELSE Answer(SavedText(category, t), store, h, <<StoreOp("add", "")>>)
        ELSE Answer(SavedText(category, t),
                    [store EXCEPT !.docs = Append(@, doc)], h, <<StoreOp("add", "")>>)

RECURSIVE Repeat(_, _)
Repeat(c, n) == IF n = 0 THEN "" ELSE c \o Repeat(c, n - 1)

(* lines 182-193 *)
RECURSIVE RetrievedLines(_, _)
RetrievedLines(docs, i) ==
    IF i > Len(docs) THEN <<>>
    ELSE <<"[" \o IntStr(i) \o "] Category: " \o docs[i].category,
           "    Saved: " \o IntStr(docs[i].timestamp),
           "    Content: " \o docs[i].text,
           "">> \o RetrievedLines(docs, i + 1)

(* lines 163-195; the store's ranking is left out: with at most five
   documents the query returns all of them *)
retrieve(q, fail, store, h) ==
    LET error == Raised("query", fail, store, h)
        found == FirstN(store.docs, 5)
    IN  IF Strip(q) = <<>>
        THEN Answer(<<"ERROR: Empty query provided">>, store, h, <<>>)
        ELSE IF error # ""
        THEN Answer(MemoryError(error), store, h, <<StoreOp("query", error)>>)
        ELSE IF found = <<>>
        THEN Answer(<<"No relevant memories found for: " \o Join(q)>>, store, h,
                    <<StoreOp("query", "")>>)
        ELSE Answer(<<"MEMORY RETRIEVAL: " \o Join(q), Repeat("=", 50), "">>
                    \o RetrievedLines(found, 1), store, h, <<StoreOp("query", "")>>)

(* lines 214-219 *)
RECURSIVE ListedLines(_, _)
ListedLines(docs, i) ==
    IF i > Len(docs) THEN <<>>
    ELSE <<"[" \o IntStr(i) \o "] [" \o docs[i].category \o "] " \o Prefix(docs[i].text, 80)
           \o (IF Len(docs[i].text) > 80 THEN "..." ELSE "")>> \o ListedLines(docs, i + 1)

(* lines 197-221 *)
list_recent(fail, store, h) ==
    LET error == Raised("get", fail, store, h)
        found == FirstN(store.docs, 10)
    IN  IF error # ""
        THEN Answer(MemoryError(error), store, h, <<StoreOp("get", error)>>)
        ELSE IF found = <<>>
        THEN Answer(<<"Memory is empty.">>, store, h, <<StoreOp("get", "")>>)
        ELSE Answer(<<"RECENT MEMORY ENTRIES", Repeat("=", 50), "">> \o ListedLines(found, 1),
                    store, h, <<StoreOp("get", "")>>)

(* a clear that recreates the collection with its documents *)
clearKeepingDocuments(fail, store, h) ==
    IF fail = "store" \/ ~store.exists
    THEN Answer(MemoryError(Raised("delete_collection", fail, store, store.gen)),
                store, h,
                <<StoreOp("delete_collection", Raised("delete_collection", fail, store, store.gen))>>)
    ELSE Answer(<<"Memory cleared successfully.">>,
                [gen |-> store.gen + 1, exists |-> TRUE, docs |-> store.docs], store.gen + 1,
                <<StoreOp("delete_collection", ""), StoreOp("create_collection", "")>>)

(* lines 223-234: delete the collection of the configured name, create it
   again and keep the new handle *)
clear(fail, store, h) ==
    IF fail = "store" \/ ~store.exists
    THEN Answer(MemoryError(Raised("delete_collection", fail, store, store.gen)),
                store, h,
                <<StoreOp("delete_collection", Raised("delete_collection", fail, store, store.gen))>>)
    ELSE IF fail = "create_collection"
    THEN Answer(MemoryError("InternalError"),
                [gen |-> store.gen, exists |-> FALSE, docs |-> <<>>], h,
                <<StoreOp("delete_collection", ""), StoreOp("create_collection", "InternalError")>>)
    ELSE Answer(<<"Memory cleared successfully.">>,
                [gen |-> store.gen + 1, exists |-> TRUE, docs |-> <<>>], store.gen + 1,
                <<StoreOp("delete_collection", ""), StoreOp("create_collection", "")>>)

(* _run without the test of line 103 *)
runUnchecked(command, fail, store, h, clock, policy) ==
    LET c == Stripped[command]
    IN  IF StartsWith(c, Chars("save:"))
        THEN save(command, fail, store, h, clock, policy)
        ELSE IF StartsWith(c, Chars("retrieve:"))
        THEN retrieve(SubSeq(c, 10, Len(c)), fail, store, h)
        ELSE IF c = Chars("list") THEN list_recent(fail, store, h)
        ELSE IF c = Chars("clear") THEN clear(fail, store, h)
        ELSE Answer(UsageError, store, h, <<>>)

(* lines 89-127 *)
run(command, fail, store, h, clock, policy) ==
    LET c == Stripped[command]
    IN  IF h = 0 THEN Answer(Unavailable, store, h, <<>>)
        ELSE IF StartsWith(c, Chars("save:"))
        THEN save(command, fail, store, h, clock, policy)
        ELSE IF StartsWith(c, Chars("retrieve:"))
        THEN retrieve(SubSeq(c, 10, Len(c)), fail, store, h)
        ELSE IF c = Chars("list") THEN list_recent(fail, store, h)
        ELSE IF c = Chars("clear") THEN clear(fail, store, h)
        ELSE Answer(UsageError, store, h, <<>>)

MemFrame ==
    UNCHANGED <<fetchVars, callVars, parseVars, formatVars, concVars, newsVars, allVars,
                toolVars, graphVars>>

IsOk(ret) == StartsWith(ret[1], "[OK]")
IsCleared(ret) == ret = <<"Memory cleared successfully.">>

(* what every call leaves in the variables *)
Leaves(i, o) ==
    /\ Len(o.store.docs) <= MaxDocs
    /\ o.store.gen <= MaxClears + 1
    /\ mstore' = o.store
    /\ mcoll' = [mcoll EXCEPT ![i] = o.handle]
    /\ mret' = o.ret
    /\ mops' = o.ops
    /\ mbefore' = mstore
    /\ msaves' = IF IsCleared(o.ret) THEN 0 ELSE IF IsOk(o.ret) THEN msaves + 1 ELSE msaves
    /\ msaves' <= MaxDocs + 1
    /\ mclearer' = IF IsCleared(o.ret) THEN i ELSE IF IsOk(o.ret) THEN 0 ELSE mclearer
    /\ UNCHANGED <<mclock, mpolicy>>
    /\ MemFrame

(* one call of _run through instance i *)
MemRun(i, command, fail) ==
    /\ mcall' = [op |-> "_run", inst |-> i, cmd |-> command]
    /\ mbool' = FALSE
    /\ Leaves(i, run(command, fail, mstore, mcoll[i], mclock, mpolicy))

(* lines 238-241 *)
MemSaveContext(i, category, content, fail) ==
    LET command == ContextCommand(category, content)
        o == run(command, fail, mstore, mcoll[i], mclock, mpolicy)
    IN  /\ mcall' = [op |-> "save_context", inst |-> i, cmd |-> command]
        /\ mbool' = IsOk(o.ret)
        /\ Leaves(i, o)

(* the clock moves on between two calls, or does not *)
MemTick ==
    /\ mclock < MaxClock
    /\ mclock' = mclock + 1
    /\ UNCHANGED <<mstore, mcoll, mpolicy, mcall, mret, mbool, mops, mbefore, msaves, mclearer>>
    /\ MemFrame

(* the store failures that make a difference to a command *)
StoreFailures(command) ==
    LET c == Stripped[command]
    IN  IF c = Chars("clear") THEN {"none", "store", "create_collection"}
        ELSE IF c = Chars("list") \/ StartsWith(c, Chars("save:"))
                \/ StartsWith(c, Chars("retrieve:"))
        THEN {"none", "store"}
        ELSE {"none"}

InitMemory ==
    /\ mstore = [gen |-> 1, exists |-> TRUE, docs |-> <<>>]
    /\ mcoll \in {f \in [Instances -> {0, 1}] : f[2] = 1}
    /\ mclock = 0
    /\ mpolicy \in {"ignore", "raise"}
    /\ mcall = NoMemoryCall
    /\ mret = <<>>
    /\ mbool = FALSE
    /\ mops = <<>>
    /\ mbefore = mstore
    /\ msaves = 0
    /\ mclearer = 0
    /\ FetchIdle
    /\ FirstCall
    /\ ParseIdle
    /\ FormatIdle
    /\ ConcIdle
    /\ NewsIdle
    /\ AllIdle
    /\ ToolIdle
    /\ GraphIdle

NextMemory ==
    \/ \E i \in Instances, c \in MemCommands : \E f \in StoreFailures(c) : MemRun(i, c, f)
    \/ \E i \in Instances, g \in MemCategories, c \in MemContents :
          \E f \in StoreFailures(ContextCommand(g, c)) : MemSaveContext(i, g, c, f)
    \/ MemTick

SpecMemory == InitMemory /\ [][NextMemory]_vars

(* a command as _run reads it *)
Trimmed(cmd) == Strip(Chars(cmd))

HasColon(s) == \E i \in 1..Len(s) : s[i] = ":"

(* the text after "save:", and the content after its first colon *)
SaveText(cmd) == SubSeq(Trimmed(cmd), 6, Len(Trimmed(cmd)))
ContentOf(s) ==
    LET at == CHOOSE i \in 1..Len(s) : s[i] = ":" /\ ~HasColon(SubSeq(s, 1, i - 1))
    IN  SubSeq(s, at + 1, Len(s))

(* the commands of each kind among those the model issues *)
SaveCommands == {cmd \in AllCommands : StartsWith(Trimmed(cmd), Chars("save:"))}
RetrieveCommands == {cmd \in AllCommands : StartsWith(Trimmed(cmd), Chars("retrieve:"))}
ListCommands == {cmd \in AllCommands : Trimmed(cmd) = Chars("list")}
ClearCommands == {cmd \in AllCommands : Trimmed(cmd) = Chars("clear")}
RejectedSaves ==
    {cmd \in SaveCommands :
        \/ ~HasColon(SaveText(cmd))
        \/ LET content == ContentOf(SaveText(cmd))
           IN  \A i \in DOMAIN content : content[i] \in Whitespace}
SavedContent ==
    [cmd \in SaveCommands \ RejectedSaves |-> Join(Strip(ContentOf(SaveText(cmd))))]

IsSaveCommand == mcall.cmd \in SaveCommands
IsRetrieveCommand == mcall.cmd \in RetrieveCommands
IsListCommand == mcall.cmd \in ListCommands
IsClearCommand == mcall.cmd \in ClearCommands
IsRejectedSave == mcall.cmd \in RejectedSaves

Available == mcoll[mcall.inst] # 0
StoreErrors == {mops[k].error : k \in DOMAIN mops} \ {""}

(* C27: _run always returns a text; without a collection it returns the
   "not available" error and attempts no store operation; a command that
   is none of save, retrieve, list, clear returns the usage error and leaves
   the store unchanged; an exception of the store becomes "ERROR: Memory
   operation failed: <kind>". *)
C27_RunAlwaysAnswers ==
    mcall.op = "_run" =>
        /\ mret # <<>>
        /\ ~Available =>
              /\ mret = <<"ERROR: Memory system not available. ChromaDB may not be installed.">>
              /\ mops = <<>>
              /\ mstore = mbefore
        /\ (Available /\ ~(IsSaveCommand \/ IsRetrieveCommand \/ IsListCommand \/ IsClearCommand)) =>
              /\ mret[1] = "ERROR: Unknown command. Use:"
              /\ Len(mret) = 5
              /\ mops = <<>>
              /\ mstore = mbefore
        /\ \A kind \in StoreErrors : mret = <<"ERROR: Memory operation failed: " \o kind>>

C27_Witness ==
    /\ mcall = [op |-> "_run", inst |-> 2, cmd |-> "list"]
    /\ mops = <<StoreOp("get", "NotFoundError")>>
    /\ mret = <<"ERROR: Memory operation failed: NotFoundError">>
    /\ mcoll[1] = 2
    /\ Len(mstore.docs) = 1

(* C28: a rejected save returns an ERROR text and leaves the collection
   unchanged, and save_context returns True exactly when the call added a
   document. *)
C28_RejectedSaveAndSaveContext ==
    /\ (mcall.op = "_run" /\ IsRejectedSave) =>
          /\ StartsWith(mret[1], "ERROR")
          /\ mstore = mbefore
    /\ mcall.op = "save_context" =>
          (mbool <=> Len(mstore.docs) = Len(mbefore.docs) + 1)

Ids(docs) == {docs[k].id : k \in DOMAIN docs}

(* C29: every save answered [OK] adds one document under a new ID, so the
   collection holds as many documents as saves were accepted since the last
   clear. *)
C29_EverySaveAddsOneDocument ==
    /\ mstore.exists => Len(mstore.docs) = msaves
    /\ Cardinality(Ids(mstore.docs)) = Len(mstore.docs)
    /\ (mcall.op # "none" /\ IsOk(mret)) =>
          /\ Len(mstore.docs) = Len(mbefore.docs) + 1
          /\ mstore.docs[Len(mstore.docs)].id \notin Ids(mbefore.docs)

(* a save command that _save does not reject *)
IsAcceptableSave == IsSaveCommand /\ ~IsRejectedSave

(* the k-th stored document has its line in a listing *)
IsListed(k) ==
    /\ Len(mret) >= 3 + k
    /\ mret[3 + k] = "[" \o IntStr(k) \o "] [" \o mstore.docs[k].category \o "] "
                     \o mstore.docs[k].text

ShowsDocument == \E k \in DOMAIN mret : StartsWith(mret[k], "    Content: ")

(* after a successful clear, before the next accepted save, and with the
   collection still there (a later clear can fail after its delete) *)
Cleared == mclearer # 0 /\ mstore.exists

AfterClear ==
    /\ Cleared => (mstore.docs = <<>> /\ mcoll[mclearer] = mstore.gen)
    /\ (Cleared /\ mcall.op = "_run" /\ mcall.inst = mclearer /\ IsListCommand
        /\ StoreErrors = {}) => mret = <<"Memory is empty.">>
    /\ (Cleared /\ mcall.op = "_run" /\ IsRetrieveCommand) => ~ShowsDocument
    /\ (mcall.op = "_run" /\ Available /\ IsListCommand /\ StoreErrors = {}) =>
          \A k \in DOMAIN mstore.docs : IsListed(k)

(* the next save through the instance that cleared *)
SaveAfterClear ==
    (/\ Cleared
     /\ mclock' = mclock
     /\ mcall'.inst = mclearer
     /\ IsAcceptableSave'
     /\ StoreErrors' = {}) =>
        /\ IsOk(mret')
        /\ Len(mstore'.docs) = 1
        /\ mstore'.docs[1].text = SavedContent[mcall'.cmd]

(* C30: after a successful clear, and until the next accepted save, list
   through the clearing instance returns "Memory is empty." and retrieve
   shows no document; a save through that instance then succeeds, and a
   listing shows every stored document. *)
C30_EmptyAfterClearUntilNextSave ==
    /\ []AfterClear
    /\ [][SaveAfterClear]_vars

C30_Witness ==
    /\ mclearer = 1
    /\ mcall = [op |-> "_run", inst |-> 1, cmd |-> "list"]
    /\ mret = <<"Memory is empty.">>
    /\ mbefore.gen = 2
    /\ mclock = 1
    /\ mcoll[2] = 1

====
